---- MODULE Spec2Model ----
(***************************************************************************)
(* A model of the Immersive Story Memory Engine: the canonical state, the  *)
(* state patch applier (backend/core/state_manager.py), the consistency    *)
(* gate (backend/gate/consistency_gate.py), the repository                 *)
(* (backend/database/repository.py) and the /draft/process handler         *)
(* (backend/api/routes.py).                                                *)
(*                                                                         *)
(* Representation.  Python dicts are functions with a string domain        *)
(* (records whose set of fields varies), lists are sequences, None of an   *)
(* Optional[str] is the string "none", None of an Optional model or        *)
(* Optional list/dict is the empty tuple and Some(v) is <<v>>.  An         *)
(* operation that can raise returns [ok |-> BOOLEAN, st |-> value].        *)
(* meta.updated_at and Event.created_at (wall clock stamps) are left out.  *)
(***************************************************************************)
EXTENDS Integers, Sequences, FiniteSets, TLC

VARIABLES
    gs,        \* SpecGate: the current_state handed to the gate / the applier
    gB,        \* SpecGate: the batch of pending events
    gpc,       \* SpecGate: "input" | "validated" | "applied" | "fixed"
    gres,      \* SpecGate: result of validate_event_patch
    gapp,      \* SpecGate: result of apply_multiple_patches(gs, gB)
    gfix,      \* SpecGate: result of apply_state_patch(gapp, fixes, ...)
    gtemp,     \* SpecGate: the temp_state validate_event_patch projected
    gtext,     \* SpecGate: the violation list as two interpreter runs print it
    gheap,     \* SpecGate: the state objects alive, and the last call's argument and result
    xs,        \* SpecExtract: the canonical_state handed to extract_events
    xpc,       \* SpecExtract: the await extract_events stands at, "parse", "done", ...
    xattempt,  \* SpecExtract: the attempt counter of the running mode
    xcalls,    \* SpecExtract: the LLM calls made so far
    xdata,     \* SpecExtract: extracted_data
    xres,      \* SpecExtract: the ExtractionResult returned
    xapp,      \* SpecExtract: the state after applying the returned events
    store,     \* Spec: table `state`: <<>> (no row) or <<state>> for the story
    log,       \* Spec: table `events` in insertion order
    req,       \* Spec: per request slot, the handler's local variables
    started,   \* Spec: number of requests started so far
    version,   \* Spec: number of save_state commits (ghost)
    av,        \* SpecAction: the violation list handed to _determine_action
    ares       \* SpecAction: the ValidationResult it returned

gvars == <<gs, gB, gpc, gres, gapp, gfix, gtemp, gtext, gheap>>
wvars == <<store, log, req, started, version>>
avars == <<av, ares>>
xvars == <<xs, xpc, xattempt, xcalls, xdata, xres, xapp>>

\* extract_events is not running
ExtractOff ==
    /\ xs = <<>> /\ xpc = "off" /\ xattempt = 0 /\ xcalls = <<>>
    /\ xdata = <<>> /\ xres = <<>> /\ xapp = <<>>
vars == <<gs, gB, gpc, gres, gapp, gfix, gtemp, gtext, gheap, store, log, req, started, version, av, ares,
         xs, xpc, xattempt, xcalls, xdata, xres, xapp>>

----------------------------------------------------------------------------
(* Generic helpers *)

None == "none"
EmptyDict == <<>>
Nothing == <<>>
Some(v) == <<v>>
IsSome(o) == Len(o) > 0
Get(o) == o[1]

\* Python truthiness of an Optional[str]
Truthy(s) == s # None /\ s # ""

Range(seq) == {seq[i] : i \in 1..Len(seq)}

Ok(v) == [ok |-> TRUE, st |-> v]
Raised(v) == [ok |-> FALSE, st |-> v]

\* dict.get(key, default)
DictGet(d, k, default) == IF k \in DOMAIN d THEN d[k] ELSE default

\* setattr(obj, key, value) for every item of updates (fields are replaced)
SetAttrs(obj, updates) ==
    [k \in DOMAIN obj |-> IF k \in DOMAIN updates THEN updates[k] ELSE obj[k]]

\* dict.update(other): shallow merge
DictUpdate(d, other) ==
    [k \in DOMAIN d \cup DOMAIN other |-> IF k \in DOMAIN other THEN other[k] ELSE d[k]]

RECURSIVE AppendIfAbsent(_, _)
AppendIfAbsent(seq, ids) ==
    IF ids = <<>> THEN seq
    ELSE AppendIfAbsent(IF Head(ids) \in Range(seq) THEN seq ELSE Append(seq, Head(ids)),
                        Tail(ids))

RemoveAll(seq, ids) == SelectSeq(seq, LAMBDA x : x \notin Range(ids))

Max(a, b) == IF a >= b THEN a ELSE b

----------------------------------------------------------------------------
(* Data model: backend/models/state.py, backend/models/event.py *)

CharacterFields == {"id", "name", "location_id", "alive", "faction_id", "metadata"}
ItemFields == {"id", "name", "owner_id", "location_id", "unique", "metadata"}
LocationFields == {"id", "name", "parent_location_id", "metadata"}
FactionFields == {"id", "name", "leader_id", "members", "metadata"}
PlayerFields == {"id", "name", "location_id", "party", "inventory"}

Character(id, name, loc, alive, faction, md) ==
    [id |-> id, name |-> name, location_id |-> loc, alive |-> alive,
     faction_id |-> faction, metadata |-> md]

ItemRec(id, name, owner, loc, unique, md) ==
    [id |-> id, name |-> name, owner_id |-> owner, location_id |-> loc,
     unique |-> unique, metadata |-> md]

\* Item.validate_unique_item and Item.validate_location (run on construction only)
ItemValid(it) ==
    /\ ~(it.unique /\ it.owner_id = None)
    /\ ~(it.owner_id = None /\ it.location_id = None)

Location(id, name, parent, md) ==
    [id |-> id, name |-> name, parent_location_id |-> parent, metadata |-> md]

Faction(id, name, leader, members, md) ==
    [id |-> id, name |-> name, leader_id |-> leader, members |-> members, metadata |-> md]

Quest(id, title, status, md) ==
    [id |-> id, title |-> title, status |-> status, prerequisites |-> <<>>, metadata |-> md]

Constraint(id, type, description, entity_id, value) ==
    [id |-> id, type |-> type, description |-> description, entity_id |-> entity_id,
     value |-> value]

EntityUpdate(key, type, id, updates) ==
    [key |-> key, entity_type |-> type, entity_id |-> id, updates |-> updates]

TimeAnchor(label, order) == [label |-> label, order |-> order]
TimeUpdate(calendar, anchor) == [calendar |-> calendar, anchor |-> anchor]
QuestUpdate(id, status, md) == [quest_id |-> id, status |-> status, metadata |-> md]

StatePatch(eus, tu, qus, cas, pus) ==
    [entity_updates |-> eus, time_update |-> tu, quest_updates |-> qus,
     constraint_additions |-> cas, player_updates |-> pus]

EmptyPatch == StatePatch(<<>>, Nothing, Nothing, <<>>, Nothing)

\* CanonicalState.validate_references: the seven referential-integrity checks
validate_references(s) ==
    LET chars == s.entities.characters
        items == s.entities.items
        locs == s.entities.locations
        facs == s.entities.factions
    IN /\ s.player.location_id \in DOMAIN locs
       /\ \A c \in Range(s.player.party) : c \in DOMAIN chars
       /\ \A i \in Range(s.player.inventory) : i \in DOMAIN items
       /\ \A c \in DOMAIN chars :
            /\ chars[c].location_id \in DOMAIN locs
            /\ Truthy(chars[c].faction_id) => chars[c].faction_id \in DOMAIN facs
       /\ \A i \in DOMAIN items :
            /\ Truthy(items[i].owner_id) =>
                 items[i].owner_id \in DOMAIN chars \cup DOMAIN locs
            /\ Truthy(items[i].location_id) => items[i].location_id \in DOMAIN locs
       /\ \A l \in DOMAIN locs :
            Truthy(locs[l].parent_location_id) => locs[l].parent_location_id \in DOMAIN locs
       /\ \A f \in DOMAIN facs :
            /\ Truthy(facs[f].leader_id) => facs[f].leader_id \in DOMAIN chars
            /\ \A m \in Range(facs[f].members) : m \in DOMAIN chars

\* What CanonicalState.model_validate accepts: every Item passes its own
\* validators and the references resolve.
StateValid(s) ==
    /\ \A i \in DOMAIN s.entities.items : ItemValid(s.entities.items[i])
    /\ validate_references(s)

\* Event.validate_payload_by_type
validate_payload_by_type(e) ==
    LET need == CASE e.type = "OWNERSHIP_CHANGE" -> {"item_id", "old_owner_id", "new_owner_id"}
                  [] e.type = "DEATH" -> {"character_id"}
                  [] e.type = "TRAVEL" -> {"character_id", "from_location_id", "to_location_id"}
                  [] e.type = "FACTION_CHANGE" -> {"character_id", "old_faction_id", "new_faction_id"}
                  [] e.type \in {"QUEST_START", "QUEST_COMPLETE", "QUEST_FAIL"} -> {"quest_id"}
                  [] e.type \in {"ITEM_CREATE", "ITEM_DESTROY"} -> {"item_id"}
                  [] e.type = "TIME_ADVANCE" -> {"time_anchor"}
                  [] OTHER -> {}
    IN need \subseteq DOMAIN e.payload

\* Event.validate_traceability
validate_traceability(e) ==
    \/ e.state_patch.entity_updates # <<>>
    \/ IsSome(e.state_patch.time_update)
    \/ IsSome(e.state_patch.quest_updates)
    \/ e.state_patch.constraint_additions # <<>>
    \/ IsSome(e.state_patch.player_updates)

\* A structurally valid Event
EventValid(e) ==
    /\ e.turn >= 0
    /\ e.time.order >= 0
    /\ e.summary # ""
    /\ validate_payload_by_type(e)
    /\ validate_traceability(e)

----------------------------------------------------------------------------
(* Patch applier: backend/core/state_manager.py *)

\* A variant that looks at location_id fields only
ensure_location_ids_only(state) ==
    LET chars == state.entities.characters
        items == state.entities.items
        locs == state.entities.locations
        required ==
            (IF Truthy(state.player.location_id) THEN {state.player.location_id} ELSE {})
            \cup {chars[c].location_id : c \in {x \in DOMAIN chars : Truthy(chars[x].location_id)}}
            \cup {items[i].location_id : i \in {x \in DOMAIN items : Truthy(items[x].location_id)}}
        missing == required \ DOMAIN locs
    IN [state EXCEPT !.entities.locations =
            [l \in DOMAIN locs \cup missing |->
                IF l \in DOMAIN locs THEN locs[l] ELSE Location(l, l, None, EmptyDict)]]

ensure_location_references(state) ==
    LET chars == state.entities.characters
        items == state.entities.items
        locs == state.entities.locations
        required ==
            (IF Truthy(state.player.location_id) THEN {state.player.location_id} ELSE {})
            \cup {chars[c].location_id : c \in {x \in DOMAIN chars : Truthy(chars[x].location_id)}}
            \cup {items[i].location_id : i \in {x \in DOMAIN items : Truthy(items[x].location_id)}}
            \cup {items[i].owner_id :
                    i \in {x \in DOMAIN items : /\ Truthy(items[x].owner_id)
                                                /\ items[x].owner_id \notin DOMAIN locs
                                                /\ items[x].owner_id \notin DOMAIN chars}}
        missing == required \ DOMAIN locs
    IN [state EXCEPT !.entities.locations =
            [l \in DOMAIN locs \cup missing |->
                IF l \in DOMAIN locs THEN locs[l] ELSE Location(l, l, None, EmptyDict)]]

\* One iteration of the entity_updates loop of apply_state_patch
ApplyEntityUpdate(ents, eu) ==
    LET id == eu.key
        u == eu.updates
    IN CASE eu.entity_type = "character" ->
              IF id \in DOMAIN ents.characters
              THEN IF DOMAIN u \subseteq CharacterFields
                   THEN Ok([ents EXCEPT !.characters[id] = SetAttrs(@, u)])
                   ELSE Raised(ents)
              ELSE Ok(ents)
         [] eu.entity_type = "item" ->
              IF id \in DOMAIN ents.items
              THEN IF DOMAIN u \subseteq ItemFields
                   THEN Ok([ents EXCEPT !.items[id] = SetAttrs(@, u)])
                   ELSE Raised(ents)
              ELSE IF "name" \in DOMAIN u
                   THEN LET it == ItemRec(id, u.name, DictGet(u, "owner_id", None),
                                          DictGet(u, "location_id", None),
                                          DictGet(u, "unique", FALSE),
                                          DictGet(u, "metadata", EmptyDict))
                        IN IF ItemValid(it)
                           THEN Ok([ents EXCEPT !.items = (id :> it) @@ @])
                           ELSE Raised(ents)
                   ELSE Ok(ents)
         [] eu.entity_type = "location" ->
              IF id \in DOMAIN ents.locations
              THEN IF DOMAIN u \subseteq LocationFields
                   THEN Ok([ents EXCEPT !.locations[id] = SetAttrs(@, u)])
                   ELSE Raised(ents)
              ELSE IF "name" \in DOMAIN u
                   THEN Ok([ents EXCEPT !.locations =
                              (id :> Location(id, u.name,
                                              DictGet(u, "parent_location_id", None),
                                              DictGet(u, "metadata", EmptyDict))) @@ @])
                   ELSE Ok(ents)
         [] OTHER ->
              IF id \in DOMAIN ents.factions
              THEN IF DOMAIN u \subseteq FactionFields
                   THEN Ok([ents EXCEPT !.factions[id] = SetAttrs(@, u)])
                   ELSE Raised(ents)
              ELSE IF "name" \in DOMAIN u
                   THEN Ok([ents EXCEPT !.factions =
                              (id :> Faction(id, u.name, DictGet(u, "leader_id", None),
                                             DictGet(u, "members", <<>>),
                                             DictGet(u, "metadata", EmptyDict))) @@ @])
                   ELSE Ok(ents)

RECURSIVE ApplyEntityUpdates(_, _)
ApplyEntityUpdates(ents, eus) ==
    IF eus = <<>> THEN Ok(ents)
    ELSE LET r == ApplyEntityUpdate(ents, Head(eus))
         IN IF r.ok THEN ApplyEntityUpdates(r.st, Tail(eus)) ELSE r

\* The player_updates loop of apply_state_patch.  The four list keys are
\* handled by name, every other key is assigned with setattr, which raises
\* for a name that is no field of PlayerState.
ApplyPlayerUpdates(player, pus) ==
    IF ~IsSome(pus) \/ DOMAIN Get(pus) = {} THEN Ok(player)
    ELSE LET pu == Get(pus)
             listKeys == {"inventory_add", "inventory_remove", "party_add", "party_remove"}
             scalar == [k \in DOMAIN pu \ listKeys |-> pu[k]]
             p1 == SetAttrs(player, scalar)
             p2 == IF "inventory_add" \in DOMAIN pu
                   THEN [p1 EXCEPT !.inventory = AppendIfAbsent(@, pu.inventory_add)] ELSE p1
             p3 == IF "inventory_remove" \in DOMAIN pu
                   THEN [p2 EXCEPT !.inventory = RemoveAll(@, pu.inventory_remove)] ELSE p2
             p4 == IF "party_add" \in DOMAIN pu
                   THEN [p3 EXCEPT !.party = AppendIfAbsent(@, pu.party_add)] ELSE p3
             p5 == IF "party_remove" \in DOMAIN pu
                   THEN [p4 EXCEPT !.party = RemoveAll(@, pu.party_remove)] ELSE p4
         IN IF DOMAIN scalar \subseteq PlayerFields THEN Ok(p5) ELSE Raised(player)

\* The time_update block, shared in shape by the applier and the gate
ApplyTimeUpdate(time, tu) ==
    IF ~IsSome(tu) THEN time
    ELSE LET t1 == IF Truthy(Get(tu).calendar)
                   THEN [time EXCEPT !.calendar = Get(tu).calendar] ELSE time
         IN IF IsSome(Get(tu).anchor) THEN [t1 EXCEPT !.anchor = Get(Get(tu).anchor)] ELSE t1

HasQuest(qs, id) == \E i \in 1..Len(qs) : qs[i].id = id
FirstQuest(qs, id) == CHOOSE i \in 1..Len(qs) : qs[i].id = id /\ \A j \in 1..(i-1) : qs[j].id # id

\* One iteration of the quest_updates loop of apply_state_patch
ApplyQuestUpdate(q, qu) ==
    LET id == qu.quest_id
        touch(quest) == [quest EXCEPT !.status = qu.status,
                                      !.metadata = IF DOMAIN qu.metadata # {}
                                                   THEN DictUpdate(@, qu.metadata) ELSE @]
        new_quest == Quest(id, DictGet(qu.metadata, "title", id), qu.status, qu.metadata)
        q1 == IF HasQuest(q.active, id)
              THEN [q EXCEPT !.active[FirstQuest(q.active, id)] = touch(@)]
              ELSE IF HasQuest(q.completed, id)
              THEN [q EXCEPT !.completed[FirstQuest(q.completed, id)] = touch(@)]
              ELSE IF qu.status \in {"completed", "failed"}
              THEN [q EXCEPT !.completed = Append(@, new_quest)]
              ELSE [q EXCEPT !.active = Append(@, new_quest)]
        filtered == SelectSeq(q1.active, LAMBDA x : x.id # id)
        q2 == [q1 EXCEPT !.active = filtered]
        pool == q2.active \o q2.completed
    IN IF qu.status \in {"completed", "failed"}
       THEN IF ~HasQuest(q2.completed, id) /\ HasQuest(pool, id)
            THEN [q2 EXCEPT !.completed =
                     Append(@, [pool[FirstQuest(pool, id)] EXCEPT !.status = qu.status])]
            ELSE q2
       ELSE q1

RECURSIVE ApplyQuestUpdateList(_, _)
ApplyQuestUpdateList(q, qus) ==
    IF qus = <<>> THEN q ELSE ApplyQuestUpdateList(ApplyQuestUpdate(q, Head(qus)), Tail(qus))

ApplyQuestUpdates(q, qus) ==
    IF IsSome(qus) THEN ApplyQuestUpdateList(q, Get(qus)) ELSE q

\* A variant that appends the entity_id of every unique_item addition
ApplyConstraintAdditionsUnchecked(cs, cas) ==
    LET Unique(c) == c.type = "unique_item" /\ Truthy(c.entity_id)
        u == SelectSeq(cas, Unique)
    IN [cs EXCEPT !.constraints = @ \o cas,
                  !.unique_item_ids = @ \o [k \in 1..Len(u) |-> u[k].entity_id]]

RECURSIVE ApplyConstraintAdditions(_, _)
ApplyConstraintAdditions(cs, cas) ==
    IF cas = <<>> THEN cs
    ELSE LET c == Head(cas)
             c1 == [cs EXCEPT !.constraints = Append(@, c)]
             c2 == IF c.type = "unique_item" /\ Truthy(c.entity_id)
                      /\ c.entity_id \notin Range(c1.unique_item_ids)
                   THEN [c1 EXCEPT !.unique_item_ids = Append(@, c.entity_id)] ELSE c1
         IN ApplyConstraintAdditions(c2, Tail(cas))

apply_state_patch(state, patch, event_id, turn) ==
    LET e == ApplyEntityUpdates(state.entities, patch.entity_updates)
        p == ApplyPlayerUpdates(state.player, patch.player_updates)
    IN IF ~e.ok \/ ~p.ok THEN Raised(state)
       ELSE Ok(ensure_location_references(
                [state EXCEPT !.entities = e.st,
                              !.player = p.st,
                              !.time = ApplyTimeUpdate(@, patch.time_update),
                              !.quest = ApplyQuestUpdates(@, patch.quest_updates),
                              !.constraints =
                                  ApplyConstraintAdditions(@, patch.constraint_additions),
                              !.meta.turn = turn,
                              !.meta.last_event_id = event_id]))

\* The loop of apply_multiple_patches: (state, max_turn) after the events
RECURSIVE ApplyEvents(_, _)
ApplyEvents(state, events) ==
    IF events = <<>> THEN Ok(state)
    ELSE LET ev == Head(events)
             r == apply_state_patch(state, ev.state_patch, ev.event_id, ev.turn)
         IN IF r.ok THEN ApplyEvents(r.st, Tail(events)) ELSE Raised(state)

RECURSIVE MaxTurnOf(_, _)
MaxTurnOf(m, events) ==
    IF events = <<>> THEN m ELSE MaxTurnOf(Max(m, Head(events).turn), Tail(events))

\* A variant whose loop applies every patch to the input state
RECURSIVE ApplyEachToInput(_, _, _)
ApplyEachToInput(state, acc, events) ==
    IF events = <<>> THEN Ok(acc)
    ELSE LET ev == Head(events)
             r == apply_state_patch(state, ev.state_patch, ev.event_id, ev.turn)
         IN IF r.ok THEN ApplyEachToInput(state, r.st, Tail(events)) ELSE Raised(state)

apply_multiple_patches_on_input(state, events) ==
    IF events = <<>> THEN Ok(state)
    ELSE LET r == ApplyEachToInput(state, state, events)
         IN IF ~r.ok THEN Raised(state)
            ELSE Ok(ensure_location_references(
                     [r.st EXCEPT !.meta.turn = MaxTurnOf(state.meta.turn, events),
                                  !.meta.last_event_id = events[Len(events)].event_id]))

\* A variant that leaves meta as the last apply_state_patch wrote it
apply_multiple_patches_keep_meta(state, events) ==
    IF events = <<>> THEN Ok(state) ELSE ApplyEvents(state, events)

apply_multiple_patches(state, events) ==
    IF events = <<>> THEN Ok(state)
    ELSE LET r == ApplyEvents(state, events)
         IN IF ~r.ok THEN Raised(state)
            ELSE Ok(ensure_location_references(
                     [r.st EXCEPT !.meta.turn = MaxTurnOf(state.meta.turn, events),
                                  !.meta.last_event_id = events[Len(events)].event_id]))

\* The same functions over object references.  objs holds the CanonicalState
\* objects alive, a reference is an index into it, and an assignment to a
\* field of an object changes the entry of that reference.
Mutated(objs, ref, value) == [objs EXCEPT ![ref] = value]

\* A variant that binds the name to the object itself
no_deepcopy(objs, ref) == [objs |-> objs, ref |-> ref]

\* copy.deepcopy(state): a new object with the value of the old one
deepcopy(objs, ref) == [objs |-> Append(objs, objs[ref]), ref |-> Len(objs) + 1]

\* apply_state_patch: new_state = copy.deepcopy(state), then every write goes
\* to new_state, which is returned
apply_state_patch_in(objs, state, patch, event_id, turn) ==
    LET new_state == deepcopy(objs, state)
        r == apply_state_patch(new_state.objs[new_state.ref], patch, event_id, turn)
    IN [objs |-> Mutated(new_state.objs, new_state.ref, r.st),
        ref |-> new_state.ref, ok |-> r.ok]

\* The loop of apply_multiple_patches: current_state = apply_state_patch(current_state, ...)
RECURSIVE ApplyEventsIn(_, _, _)
ApplyEventsIn(objs, current_state, events) ==
    IF events = <<>> THEN [objs |-> objs, ref |-> current_state, ok |-> TRUE]
    ELSE LET ev == Head(events)
             r == apply_state_patch_in(objs, current_state, ev.state_patch,
                                       ev.event_id, ev.turn)
         IN IF r.ok THEN ApplyEventsIn(r.objs, r.ref, Tail(events)) ELSE r

\* apply_multiple_patches: current_state = state, the loop, then the writes
\* to current_state.meta and _ensure_location_references(current_state)
apply_multiple_patches_in(objs, state, events) ==
    IF events = <<>> THEN [objs |-> objs, ref |-> state, ok |-> TRUE]
    ELSE LET r == ApplyEventsIn(objs, state, events)
         IN IF ~r.ok THEN r
            ELSE [objs |-> Mutated(r.objs, r.ref,
                              ensure_location_references(
                                  [r.objs[r.ref] EXCEPT
                                      !.meta.turn = MaxTurnOf(objs[state].meta.turn, events),
                                      !.meta.last_event_id = events[Len(events)].event_id])),
                  ref |-> r.ref, ok |-> TRUE]

----------------------------------------------------------------------------
(* Consistency gate: backend/gate/consistency_gate.py *)

\* Python iterates a dict in insertion order.  The entity maps of a state are
\* functions here, so their keys are visited in this fixed order instead.
IdOrder == <<"caocao", "liubei", "lvbu", "player_001", "ghost",
             "sword_001", "seal_001", "bow_001",
             "luoyang", "xuchang", "chengdu", "unknown", "wei", "shu">>

Ordered(S) == SelectSeq(IdOrder, LAMBDA x : x \in S)

\* A message is its template and the values interpolated into it; a Python
\* set printed into a message is kept as a set.
Msg(tpl, args, set) == [tpl |-> tpl, args |-> args, set |-> set]

RuleViolation(rule_id, severity, message, entity_id, fixable) ==
    [rule_id |-> rule_id, severity |-> severity, message |-> message,
     entity_id |-> entity_id, fixable |-> fixable]

\* The templates whose literal text contains "死亡角色"; no template contains
\* "多重归属" (it occurs in R1's rule_name only), and no name, id or summary
\* of the universe contains either marker.
MarkerTemplates == {"R3_actor", "R3_revived"}
NeedsClarification(v) == v.message.tpl \in MarkerTemplates

\* All (event, entity_update) pairs of a batch, in iteration order
RECURSIVE EventUpdates(_, _)
EventUpdates(ev, eus) ==
    IF eus = <<>> THEN <<>>
    ELSE <<[ev |-> ev, eu |-> Head(eus)]>> \o EventUpdates(ev, Tail(eus))

RECURSIVE AllUpdates(_)
AllUpdates(events) ==
    IF events = <<>> THEN <<>>
    ELSE EventUpdates(Head(events), Head(events).state_patch.entity_updates)
         \o AllUpdates(Tail(events))

\* Concatenation of a sequence of sequences
RECURSIVE Concat(_)
Concat(seqs) == IF seqs = <<>> THEN <<>> ELSE Head(seqs) \o Concat(Tail(seqs))

\* The indices of a sequence
Idx(seq) == 1..Len(seq)

\* The distinct values of a sequence in order of first occurrence
RECURSIVE Distinct(_)
Distinct(seq) ==
    IF seq = <<>> THEN <<>>
    ELSE LET d == Distinct(SubSeq(seq, 1, Len(seq) - 1))
             x == seq[Len(seq)]
         IN IF x \in Range(d) THEN d ELSE Append(d, x)

NameOf(state, char_id) ==
    IF char_id \in DOMAIN state.entities.characters
    THEN state.entities.characters[char_id].name ELSE char_id

\* _apply_patches_to_state: the projection the rules are evaluated on
GateApplyEntityUpdate(ents, eu) ==
    CASE eu.entity_type = "item" ->
           IF eu.key \in DOMAIN ents.items
           THEN IF DOMAIN eu.updates \subseteq ItemFields
                THEN Ok([ents EXCEPT !.items[eu.key] = SetAttrs(@, eu.updates)])
                ELSE Raised(ents)
           ELSE Ok(ents)
      [] eu.entity_type = "character" ->
           IF eu.key \in DOMAIN ents.characters
           THEN IF DOMAIN eu.updates \subseteq CharacterFields
                THEN Ok([ents EXCEPT !.characters[eu.key] = SetAttrs(@, eu.updates)])
                ELSE Raised(ents)
           ELSE Ok(ents)
      [] OTHER -> Ok(ents)

RECURSIVE GateApplyEntityUpdates(_, _)
GateApplyEntityUpdates(ents, eus) ==
    IF eus = <<>> THEN Ok(ents)
    ELSE LET r == GateApplyEntityUpdate(ents, Head(eus))
         IN IF r.ok THEN GateApplyEntityUpdates(r.st, Tail(eus)) ELSE r

\* setattr(temp_state.player, key, value) for every key of player_updates
GateApplyPlayerUpdates(player, pus) ==
    IF ~IsSome(pus) \/ DOMAIN Get(pus) = {} THEN Ok(player)
    ELSE IF DOMAIN Get(pus) \subseteq PlayerFields
         THEN Ok(SetAttrs(player, Get(pus)))
         ELSE Raised(player)

RECURSIVE apply_patches_to_state(_, _)
apply_patches_to_state(current_state, pending_events) ==
    IF pending_events = <<>> THEN Ok(current_state)
    ELSE LET patch == Head(pending_events).state_patch
             e == GateApplyEntityUpdates(current_state.entities, patch.entity_updates)
             p == GateApplyPlayerUpdates(current_state.player, patch.player_updates)
         IN IF ~e.ok \/ ~p.ok THEN Raised(current_state)
            ELSE apply_patches_to_state(
                     [current_state EXCEPT !.entities = e.st,
                                           !.player = p.st,
                                           !.time = ApplyTimeUpdate(@, patch.time_update)],
                     Tail(pending_events))

\* _apply_patches_to_state over references: temp_state = copy.deepcopy(current_state),
\* then every write goes to temp_state
apply_patches_to_state_in(objs, current_state, pending_events) ==
    LET temp_state == deepcopy(objs, current_state)
    IN [objs |-> Mutated(temp_state.objs, temp_state.ref,
                         apply_patches_to_state(temp_state.objs[temp_state.ref],
                                                pending_events).st),
        ref |-> temp_state.ref]

\* A variant of R1 that counts the item's present owner among the owners
check_r1_counting_present_owner(current_state, temp_state, pending_events) ==
    LET unique_item_ids == Range(current_state.constraints.unique_item_ids)
        assigns == SelectSeq(AllUpdates(pending_events),
                       LAMBDA x : /\ x.eu.entity_type = "item"
                                  /\ x.eu.entity_id \in unique_item_ids
                                  /\ Truthy(DictGet(x.eu.updates, "owner_id", None)))
        item_ids == Distinct([i \in 1..Len(assigns) |-> assigns[i].eu.entity_id])
        present(item_id) == IF item_id \in DOMAIN current_state.entities.items
                            THEN {current_state.entities.items[item_id].owner_id} ELSE {}
        owners(item_id) == present(item_id) \cup
                           {assigns[i].eu.updates.owner_id :
                               i \in {j \in 1..Len(assigns) : assigns[j].eu.entity_id = item_id}}
        one(item_id) ==
            IF Cardinality(owners(item_id)) > 1
            THEN <<RuleViolation("R1", "error",
                       Msg("R1_owners", <<item_id, item_id>>, owners(item_id)),
                       item_id, FALSE)>>
            ELSE <<>>
    IN Concat([k_ \in Idx(item_ids) |-> one(item_ids[k_])])

\* R1: a unique item is given two different owners inside the batch
check_r1_unique_item_ownership(current_state, temp_state, pending_events) ==
    LET unique_item_ids == Range(current_state.constraints.unique_item_ids)
        assigns == SelectSeq(AllUpdates(pending_events),
                       LAMBDA x : /\ x.eu.entity_type = "item"
                                  /\ x.eu.entity_id \in unique_item_ids
                                  /\ Truthy(DictGet(x.eu.updates, "owner_id", None)))
        item_ids == Distinct([i \in 1..Len(assigns) |-> assigns[i].eu.entity_id])
        owners(item_id) == {assigns[i].eu.updates.owner_id :
                               i \in {j \in 1..Len(assigns) : assigns[j].eu.entity_id = item_id}}
        item_name(item_id) == IF item_id \in DOMAIN current_state.entities.items
                              THEN current_state.entities.items[item_id].name ELSE item_id
        one(item_id) ==
            IF Cardinality(owners(item_id)) > 1
            THEN <<RuleViolation("R1", "error",
                       Msg("R1_owners", <<item_name(item_id), item_id>>, owners(item_id)),
                       item_id, FALSE)>>
            ELSE <<>>
    IN Concat([k_ \in Idx(item_ids) |-> one(item_ids[k_])])

\* The location R2 expects of an item, None when the owner is unknown
ExpectedLocation(state, item) ==
    IF item.owner_id \in DOMAIN state.entities.characters
    THEN state.entities.characters[item.owner_id].location_id
    ELSE IF item.owner_id \in DOMAIN state.entities.locations
    THEN item.owner_id
    ELSE None

\* R2: an owned item is where its owner is (warning, fixable)
check_r2_item_location_consistency(current_state, temp_state, pending_events) ==
    LET items == temp_state.entities.items
        one(item_id) ==
            LET item == items[item_id]
                expected == ExpectedLocation(temp_state, item)
            IN IF Truthy(item.owner_id) /\ Truthy(expected) /\ item.location_id # expected
               THEN <<RuleViolation("R2", "warning",
                          Msg("R2_location",
                              <<item.name, item_id, item.location_id, item.owner_id, expected>>,
                              {}),
                          item_id, TRUE)>>
               ELSE <<>>
    IN Concat([k_ \in Idx(Ordered(DOMAIN items)) |-> one(Ordered(DOMAIN items)[k_])])

\* R3: dead characters cannot act
check_r3_dead_character_action(current_state, temp_state, pending_events) ==
    LET chars == current_state.entities.characters
        dead_character_ids == {c \in DOMAIN chars : ~chars[c].alive}
        actors_of(event) ==
            Concat([k_ \in Idx(event.who.actors) |->
 LET actor_id == event.who.actors[k_] IN 
                        IF actor_id \in dead_character_ids
                        THEN <<RuleViolation("R3", "error",
                                   Msg("R3_actor",
                                       <<chars[actor_id].name, actor_id, event.summary>>, {}),
                                   actor_id, FALSE)>>
                        ELSE <<>>])
        revived(x) ==
            IF /\ x.ev.type # "REVIVAL"
               /\ x.eu.entity_type = "character"
               /\ x.eu.entity_id \in dead_character_ids
               /\ DictGet(x.eu.updates, "alive", FALSE) = TRUE
            THEN <<RuleViolation("R3", "error",
                       Msg("R3_revived", <<chars[x.eu.entity_id].name, x.eu.entity_id>>, {}),
                       x.eu.entity_id, FALSE)>>
            ELSE <<>>
    IN Concat([k_ \in Idx(pending_events) |-> actors_of(pending_events[k_])]) \o Concat([k_ \in Idx(AllUpdates(pending_events)) |-> revived(AllUpdates(pending_events)[k_])])

\* R4: life and faction changes need the explicit event type
check_r4_explicit_state_change(current_state, temp_state, pending_events) ==
    LET chars == current_state.entities.characters
        one(x) ==
            LET char_id == x.eu.entity_id
                u == x.eu.updates
                known == x.eu.entity_type = "character" /\ char_id \in DOMAIN chars
                alive_v ==
                    IF known /\ "alive" \in DOMAIN u /\ chars[char_id].alive # u.alive
                    THEN IF u.alive = FALSE /\ x.ev.type # "DEATH"
                         THEN <<RuleViolation("R4", "error",
                                    Msg("R4_death", <<chars[char_id].name, char_id>>, {}),
                                    char_id, FALSE)>>
                         ELSE IF u.alive = TRUE /\ x.ev.type # "REVIVAL"
                         THEN <<RuleViolation("R4", "error",
                                    Msg("R4_revival", <<chars[char_id].name, char_id>>, {}),
                                    char_id, FALSE)>>
                         ELSE <<>>
                    ELSE <<>>
                faction_v ==
                    IF /\ known /\ "faction_id" \in DOMAIN u
                       /\ chars[char_id].faction_id # u.faction_id
                       /\ x.ev.type # "FACTION_CHANGE"
                    THEN <<RuleViolation("R4", "error",
                               Msg("R4_faction",
                                   <<chars[char_id].name, char_id,
                                     chars[char_id].faction_id, u.faction_id>>, {}),
                               char_id, FALSE)>>
                    ELSE <<>>
            IN alive_v \o faction_v
    IN Concat([k_ \in Idx(AllUpdates(pending_events)) |-> one(AllUpdates(pending_events)[k_])])

\* R5: a character's location changes only through a TRAVEL event
check_r5_travel_event_required(current_state, temp_state, pending_events) ==
    LET chars == current_state.entities.characters
        one(x) ==
            LET char_id == x.eu.entity_id
                u == x.eu.updates
            IN IF /\ x.eu.entity_type = "character"
                  /\ "location_id" \in DOMAIN u
                  /\ char_id \in DOMAIN chars
                  /\ chars[char_id].location_id # u.location_id
               THEN IF x.ev.type # "TRAVEL"
                    THEN <<RuleViolation("R5", "error",
                               Msg("R5_teleport",
                                   <<chars[char_id].name, char_id,
                                     chars[char_id].location_id, u.location_id>>, {}),
                               char_id, FALSE)>>
                    ELSE IF /\ "character_id" \in DOMAIN x.ev.payload
                            /\ x.ev.payload.character_id # char_id
                    THEN <<RuleViolation("R5", "error",
                               Msg("R5_payload", <<x.ev.payload.character_id, char_id>>, {}),
                               char_id, FALSE)>>
                    ELSE <<>>
               ELSE <<>>
    IN Concat([k_ \in Idx(AllUpdates(pending_events)) |-> one(AllUpdates(pending_events)[k_])])

\* The per-time-point dict of R6: keys in insertion order, a set per key
R6Add(d, k, v) ==
    IF k \in Range(d.keys) THEN [d EXCEPT !.val[k] = @ \cup {v}]
    ELSE [keys |-> Append(d.keys, k), val |-> (k :> {v}) @@ d.val]

RECURSIVE R6Updates(_, _)
R6Updates(d, eus) ==
    IF eus = <<>> THEN d
    ELSE LET eu == Head(eus)
         IN R6Updates(IF eu.entity_type = "character" /\ "location_id" \in DOMAIN eu.updates
                      THEN R6Add(d, eu.entity_id, eu.updates.location_id) ELSE d,
                      Tail(eus))

RECURSIVE R6Actors(_, _, _)
R6Actors(d, actors, where) ==
    IF actors = <<>> THEN d
    ELSE R6Actors(IF Head(actors) \notin Range(d.keys) THEN R6Add(d, Head(actors), where) ELSE d,
                  Tail(actors), where)

RECURSIVE R6Group(_, _)
R6Group(d, events) ==
    IF events = <<>> THEN d
    ELSE LET ev == Head(events)
             d1 == R6Updates(d, ev.state_patch.entity_updates)
             d2 == IF ev.type # "TRAVEL" THEN R6Actors(d1, ev.who.actors, ev.where.location_id)
                   ELSE d1
         IN R6Group(d2, Tail(events))

\* R6: one location per character at one time.order
check_r6_single_location_per_character(current_state, temp_state, pending_events) ==
    LET orders == Distinct([i \in 1..Len(pending_events) |-> pending_events[i].time.order])
        group(time_order) ==
            LET events == SelectSeq(pending_events, LAMBDA e : e.time.order = time_order)
                d == R6Group([keys |-> <<>>, val |-> <<>>], events)
            IN Concat([k_ \in Idx(d.keys) |->
 LET char_id == d.keys[k_] IN 
                           IF Cardinality(d.val[char_id]) > 1
                           THEN <<RuleViolation("R6", "error",
                                      Msg("R6_locations",
                                          <<NameOf(current_state, char_id), char_id,
                                            ToString(time_order)>>,
                                          d.val[char_id]),
                                      char_id, FALSE)>>
                           ELSE <<>>])
    IN Concat([k_ \in Idx(orders) |-> group(orders[k_])])

\* sorted(pending_events, key=(turn, time.order)): a stable sort
EventKeyLeq(a, b) == a.turn < b.turn \/ (a.turn = b.turn /\ a.time.order <= b.time.order)

RECURSIVE SortEvents(_)
SortEvents(events) ==
    IF events = <<>> THEN <<>>
    ELSE LET front == SortEvents(SubSeq(events, 1, Len(events) - 1))
             e == events[Len(events)]
             k == Cardinality({i \in 1..Len(front) : EventKeyLeq(front[i], e)})
         IN SubSeq(front, 1, k) \o <<e>> \o SubSeq(front, k + 1, Len(front))

RECURSIVE R7Sorted(_, _)
R7Sorted(current_time_order, sorted_events) ==
    IF sorted_events = <<>> THEN <<>>
    ELSE LET event == Head(sorted_events)
             v == IF event.time.order < current_time_order
                  THEN <<RuleViolation("R7", "error",
                             Msg("R7_before",
                                 <<event.summary, event.event_id, ToString(event.time.order),
                                   ToString(current_time_order)>>, {}),
                             None, FALSE)>>
                  ELSE <<>>
         IN v \o R7Sorted(Max(current_time_order, event.time.order), Tail(sorted_events))

\* A variant of R7 whose first loop reads the events in batch order, unsorted
check_r7_unsorted(current_state, temp_state, pending_events) ==
    LET n == Len(pending_events)
        pair(i) ==
            IF \E j \in (i+1)..n : /\ pending_events[i].turn = pending_events[j].turn
                                   /\ pending_events[i].time.order > pending_events[j].time.order
            THEN LET j == CHOOSE j \in (i+1)..n :
                              /\ pending_events[i].turn = pending_events[j].turn
                              /\ pending_events[i].time.order > pending_events[j].time.order
                              /\ \A k \in (i+1)..(j-1) :
                                   ~(/\ pending_events[i].turn = pending_events[k].turn
                                     /\ pending_events[i].time.order > pending_events[k].time.order)
                 IN <<RuleViolation("R7", "error",
                          Msg("R7_same_turn",
                              <<ToString(pending_events[i].turn), pending_events[i].summary,
                                ToString(pending_events[i].time.order),
                                pending_events[j].summary,
                                ToString(pending_events[j].time.order)>>, {}),
                          None, FALSE)>>
            ELSE <<>>
        in_batch ==
            IF pending_events # <<>>
            THEN R7Sorted(current_state.time.anchor.order, pending_events)
                 \o Concat([k_ \in Idx([i \in 1..(n-1) |-> i]) |-> pair([i \in 1..(n-1) |-> i][k_])])
            ELSE <<>>
        projected ==
            IF temp_state.time.anchor.order < current_state.time.anchor.order
            THEN <<RuleViolation("R7", "error",
                       Msg("R7_projected",
                           <<ToString(temp_state.time.anchor.order),
                             ToString(current_state.time.anchor.order)>>, {}),
                       None, FALSE)>>
            ELSE <<>>
    IN in_batch \o projected

\* R7: the timeline is monotonic
check_r7_monotonic_timeline(current_state, temp_state, pending_events) ==
    LET n == Len(pending_events)
        pair(i) ==
            IF \E j \in (i+1)..n : /\ pending_events[i].turn = pending_events[j].turn
                                   /\ pending_events[i].time.order > pending_events[j].time.order
            THEN LET j == CHOOSE j \in (i+1)..n :
                              /\ pending_events[i].turn = pending_events[j].turn
                              /\ pending_events[i].time.order > pending_events[j].time.order
                              /\ \A k \in (i+1)..(j-1) :
                                   ~(/\ pending_events[i].turn = pending_events[k].turn
                                     /\ pending_events[i].time.order > pending_events[k].time.order)
                 IN <<RuleViolation("R7", "error",
                          Msg("R7_same_turn",
                              <<ToString(pending_events[i].turn), pending_events[i].summary,
                                ToString(pending_events[i].time.order),
                                pending_events[j].summary,
                                ToString(pending_events[j].time.order)>>, {}),
                          None, FALSE)>>
            ELSE <<>>
        in_batch ==
            IF pending_events # <<>>
            THEN R7Sorted(current_state.time.anchor.order, SortEvents(pending_events))
                 \o Concat([k_ \in Idx([i \in 1..(n-1) |-> i]) |-> pair([i \in 1..(n-1) |-> i][k_])])
            ELSE <<>>
        projected ==
            IF temp_state.time.anchor.order < current_state.time.anchor.order
            THEN <<RuleViolation("R7", "error",
                       Msg("R7_projected",
                           <<ToString(temp_state.time.anchor.order),
                             ToString(current_state.time.anchor.order)>>, {}),
                       None, FALSE)>>
            ELSE <<>>
    IN in_batch \o projected

\* R8: immutable events and hard constraints
check_r8_immutable_constraints(current_state, temp_state, pending_events) ==
    LET immutable_event_ids == Range(current_state.constraints.immutable_events)
        chars == temp_state.entities.characters
        items == temp_state.entities.items
        immutable(event) ==
            IF event.event_id \in immutable_event_ids
            THEN <<RuleViolation("R8", "error", Msg("R8_immutable", <<event.event_id>>, {}),
                                 None, FALSE)>>
            ELSE <<>>
        hard(c) ==
            CASE c.type = "entity_state" ->
                   IF /\ Truthy(c.entity_id) /\ c.entity_id \in DOMAIN chars
                      /\ "alive" \in DOMAIN c.value
                      /\ chars[c.entity_id].alive # c.value.alive
                   THEN <<RuleViolation("R8", "error",
                              Msg("R8_state",
                                  <<chars[c.entity_id].name, c.entity_id, c.description>>, {}),
                              c.entity_id, FALSE)>>
                   ELSE <<>>
              [] c.type = "relationship" ->
                   IF /\ Truthy(c.entity_id) /\ c.entity_id \in DOMAIN chars
                      /\ "faction_id" \in DOMAIN c.value
                      /\ chars[c.entity_id].faction_id # c.value.faction_id
                   THEN <<RuleViolation("R8", "error",
                              Msg("R8_relationship",
                                  <<chars[c.entity_id].name, c.entity_id, c.description>>, {}),
                              c.entity_id, FALSE)>>
                   ELSE <<>>
              [] c.type = "unique_item" ->
                   IF /\ Truthy(c.entity_id) /\ c.entity_id \in DOMAIN items
                      /\ "owner_id" \in DOMAIN c.value
                      /\ items[c.entity_id].owner_id # c.value.owner_id
                   THEN <<RuleViolation("R8", "error",
                              Msg("R8_owner",
                                  <<items[c.entity_id].name, c.entity_id, c.description>>, {}),
                              c.entity_id, FALSE)>>
                   ELSE <<>>
              [] OTHER -> <<>>
    IN Concat([k_ \in Idx(pending_events) |-> immutable(pending_events[k_])])
       \o Concat([k_ \in Idx(current_state.constraints.constraints) |-> hard(current_state.constraints.constraints[k_])])

\* R9: faction and relationship changes are traceable
check_r9_traceable_relationship_change(current_state, temp_state, pending_events) ==
    LET chars == current_state.entities.characters
        one(x) ==
            LET char_id == x.eu.entity_id
                u == x.eu.updates
                faction_v ==
                    IF /\ "faction_id" \in DOMAIN u
                       /\ char_id \in DOMAIN chars
                       /\ chars[char_id].faction_id # u.faction_id
                    THEN IF x.ev.type # "FACTION_CHANGE"
                         THEN <<RuleViolation("R9", "error",
                                    Msg("R9_faction",
                                        <<chars[char_id].name, char_id,
                                          chars[char_id].faction_id, u.faction_id>>, {}),
                                    char_id, FALSE)>>
                         ELSE IF "character_id" \notin DOMAIN x.ev.payload
                         THEN <<RuleViolation("R9", "error", Msg("R9_payload", <<>>, {}),
                                              char_id, FALSE)>>
                         ELSE <<>>
                    ELSE <<>>
                relation_v ==
                    IF /\ "metadata" \in DOMAIN u
                       /\ "relationship_changes" \in DOMAIN u.metadata
                       /\ x.ev.type # "RELATIONSHIP_CHANGE"
                    THEN <<RuleViolation("R9", "error",
                               Msg("R9_relationship",
                                   <<NameOf(current_state, char_id), char_id>>, {}),
                               char_id, FALSE)>>
                    ELSE <<>>
            IN IF x.eu.entity_type = "character" THEN faction_v \o relation_v ELSE <<>>
    IN Concat([k_ \in Idx(AllUpdates(pending_events)) |-> one(AllUpdates(pending_events)[k_])])

\* R10 checks nothing on the event-batch path
check_r10_draft_factual_consistency(current_state, temp_state, pending_events) == <<>>

\* A variant of _build_fix_patch that always moves the item to its owner_id
build_fix_patch_to_owner_id(violations, state) ==
    LET items == state.entities.items
        fixed(v) ==
            IF /\ v.fixable /\ Truthy(v.entity_id) /\ v.rule_id = "R2"
               /\ v.entity_id \in DOMAIN items
               /\ Truthy(items[v.entity_id].owner_id)
            THEN <<v.entity_id>> ELSE <<>>
        ids == Distinct(Concat([k_ \in Idx(violations) |-> fixed(violations[k_])]))
        entity_updates ==
            [i \in 1..Len(ids) |->
                EntityUpdate(ids[i], "item", ids[i], [location_id |-> items[ids[i]].owner_id])]
    IN IF ids # <<>>
       THEN Some(StatePatch(entity_updates, Nothing, Nothing, <<>>, Nothing))
       ELSE Nothing

\* _build_fix_patch: Nothing, or Some(patch) that relocates the R2 items
build_fix_patch(violations, state) ==
    LET items == state.entities.items
        fixed(v) ==
            IF /\ v.fixable /\ Truthy(v.entity_id) /\ v.rule_id = "R2"
               /\ v.entity_id \in DOMAIN items
               /\ Truthy(items[v.entity_id].owner_id)
               /\ Truthy(ExpectedLocation(state, items[v.entity_id]))
            THEN <<v.entity_id>> ELSE <<>>
        ids == Distinct(Concat([k_ \in Idx(violations) |-> fixed(violations[k_])]))
        entity_updates ==
            [i \in 1..Len(ids) |->
                EntityUpdate(ids[i], "item", ids[i],
                             [location_id |-> ExpectedLocation(state, items[ids[i]])])]
    IN IF ids # <<>>
       THEN Some(StatePatch(entity_updates, Nothing, Nothing, <<>>, Nothing))
       ELSE Nothing

Reason(v) == <<v.rule_id, v.message>>

ValidationResult(action, reasons, violations, fixes, questions) ==
    [action |-> action, reasons |-> reasons, violations |-> violations,
     fixes |-> fixes, questions |-> questions]

\* A variant of _determine_action that tries AUTO_FIX before looking at errors
determine_action_fix_first(violations, current_state, temp_state) ==
    LET warnings == SelectSeq(violations, LAMBDA v : v.severity = "warning")
        fixable == SelectSeq(violations, LAMBDA v : v.fixable)
        errors == SelectSeq(violations, LAMBDA v : v.severity = "error")
        reasons == [i \in 1..Len(violations) |-> Reason(violations[i])]
    IN IF violations = <<>>
       THEN ValidationResult("PASS", <<>>, <<>>, Nothing, Nothing)
       ELSE IF warnings # <<>> /\ Len(fixable) = Len(warnings)
       THEN ValidationResult("AUTO_FIX", reasons, violations,
                             build_fix_patch(violations, temp_state), Nothing)
       ELSE IF \E i \in 1..Len(errors) : NeedsClarification(errors[i])
       THEN ValidationResult("ASK_USER", reasons, violations, Nothing,
                             Some([i \in 1..Len(errors) |-> Reason(errors[i])]))
       ELSE ValidationResult("REWRITE", reasons, violations, Nothing, Nothing)

\* _determine_action
determine_action(violations, current_state, temp_state) ==
    LET errors == SelectSeq(violations, LAMBDA v : v.severity = "error")
        warnings == SelectSeq(violations, LAMBDA v : v.severity = "warning")
        fixable == SelectSeq(violations, LAMBDA v : v.fixable)
        reasons == [i \in 1..Len(violations) |-> Reason(violations[i])]
    IN IF violations = <<>>
       THEN ValidationResult("PASS", <<>>, <<>>, Nothing, Nothing)
       ELSE IF errors # <<>>
       THEN IF \E i \in 1..Len(errors) : NeedsClarification(errors[i])
            THEN ValidationResult("ASK_USER", reasons, violations, Nothing,
                                  Some([i \in 1..Len(errors) |-> Reason(errors[i])]))
            ELSE ValidationResult("REWRITE", reasons, violations, Nothing, Nothing)
       ELSE IF warnings # <<>> /\ Len(fixable) = Len(warnings)
       THEN ValidationResult("AUTO_FIX", reasons, violations,
                             build_fix_patch(violations, temp_state), Nothing)
       ELSE ValidationResult("REWRITE", reasons, violations, Nothing, Nothing)

\* The violations of the ten rules in the order of self.rules
AllViolations(current_state, temp_state, pending_events) ==
    check_r1_unique_item_ownership(current_state, temp_state, pending_events)
    \o check_r2_item_location_consistency(current_state, temp_state, pending_events)
    \o check_r3_dead_character_action(current_state, temp_state, pending_events)
    \o check_r4_explicit_state_change(current_state, temp_state, pending_events)
    \o check_r5_travel_event_required(current_state, temp_state, pending_events)
    \o check_r6_single_location_per_character(current_state, temp_state, pending_events)
    \o check_r7_monotonic_timeline(current_state, temp_state, pending_events)
    \o check_r8_immutable_constraints(current_state, temp_state, pending_events)
    \o check_r9_traceable_relationship_change(current_state, temp_state, pending_events)
    \o check_r10_draft_factual_consistency(current_state, temp_state, pending_events)

\* validate_event_patch: Ok(ValidationResult), or Raised when the projection raises
validate_event_patch(current_state, pending_events) ==
    LET t == apply_patches_to_state(current_state, pending_events)
    IN IF ~t.ok
       THEN Raised(ValidationResult("RAISED", <<>>, <<>>, Nothing, Nothing))
       ELSE Ok(determine_action(AllViolations(current_state, t.st, pending_events),
                                current_state, t.st))

----------------------------------------------------------------------------
(* The inputs: states and events of the repository's tests *)

MaxBatch == 2

Event(event_id, turn, order, where, actors, type, summary, payload, patch) ==
    [event_id |-> event_id, turn |-> turn, time |-> [label |-> "t", order |-> order],
     where |-> [location_id |-> where], who |-> [actors |-> actors, witnesses |-> <<>>],
     type |-> type, summary |-> summary, payload |-> payload, state_patch |-> patch]

\* Repository.initialize_state: the state created on the first request
InitialState(story_id) ==
    [meta |-> [story_id |-> story_id, turn |-> 0, last_event_id |-> None],
     time |-> [calendar |-> "t0", anchor |-> TimeAnchor("t0", 0)],
     player |-> [id |-> "player_001", name |-> "Player", location_id |-> "unknown",
                 party |-> <<>>, inventory |-> <<>>],
     entities |-> [characters |-> <<>>, items |-> <<>>,
                   locations |-> ("unknown" :> Location("unknown", "Unknown", None, EmptyDict)),
                   factions |-> <<>>],
     quest |-> [active |-> <<>>, completed |-> <<>>],
     constraints |-> [unique_item_ids |-> <<>>, immutable_events |-> <<>>,
                      constraints |-> <<>>]]

\* base_state of the gate tests, with a dead character, a faction and a hard
\* constraint added (dead_char of test_r3_*, test_r8_*)
World ==
    [meta |-> [story_id |-> "s1", turn |-> 0, last_event_id |-> None],
     time |-> [calendar |-> "t1", anchor |-> TimeAnchor("t1", 1)],
     player |-> [id |-> "player_001", name |-> "Player", location_id |-> "luoyang",
                 party |-> <<>>, inventory |-> <<>>],
     entities |->
        [characters |->
            ("caocao" :> Character("caocao", "CaoCao", "luoyang", TRUE, "wei", EmptyDict))
            @@ ("liubei" :> Character("liubei", "LiuBei", "xuchang", TRUE, None, EmptyDict))
            @@ ("lvbu" :> Character("lvbu", "LvBu", "luoyang", FALSE, None, EmptyDict)),
         items |->
            ("seal_001" :> ItemRec("seal_001", "Seal", "caocao", "luoyang", TRUE, EmptyDict))
            @@ ("sword_001" :> ItemRec("sword_001", "Sword", "caocao", "luoyang", FALSE, EmptyDict)),
         locations |->
            ("luoyang" :> Location("luoyang", "LuoYang", None, EmptyDict))
            @@ ("xuchang" :> Location("xuchang", "XuChang", None, EmptyDict)),
         factions |-> ("wei" :> Faction("wei", "Wei", "caocao", <<"caocao">>, EmptyDict))],
     quest |-> [active |-> <<>>, completed |-> <<>>],
     constraints |->
        [unique_item_ids |-> <<"seal_001">>, immutable_events |-> <<>>,
         constraints |-> <<Constraint("c_lvbu", "entity_state", "LvBu is dead", "lvbu",
                                      [alive |-> FALSE])>>]]

\* The state of the R8 tests: hard constraints on caocao's life and faction
\* and on the owners of the seal and of a bow that is not made yet
Canon ==
    [World EXCEPT !.constraints.constraints = @ \o
        << Constraint("constraint_001", "entity_state", "caocao must live", "caocao",
                      [alive |-> TRUE]),
           Constraint("constraint_002", "relationship", "caocao stays with wei", "caocao",
                      [faction_id |-> "wei"]),
           Constraint("c_seal", "unique_item", "the seal is caocao's", "seal_001",
                      [owner_id |-> "caocao"]),
           Constraint("c_bow", "unique_item", "the bow is caocao's", "bow_001",
                      [owner_id |-> "caocao"]) >>]

GateStates == {World, InitialState("s1"), Canon}

OneUpdate(type, id, updates) ==
    StatePatch(<<EntityUpdate(id, type, id, updates)>>, Nothing, Nothing, <<>>, Nothing)

PlayerPatch(pu) == StatePatch(<<>>, Nothing, Nothing, <<>>, Some(pu))

\* EventExtractor._create_default_event
create_default_event(state, turn, event_id) ==
    Event(event_id, turn, state.time.anchor.order, state.player.location_id,
          <<state.player.id>>, "OTHER", "conversation continues", EmptyDict,
          OneUpdate("character", state.player.id, [metadata |-> [last_turn |-> turn]]))

\* The events of the unit and needle tests, one per rule outcome, all of
\* turn 1 at time.order 1 unless they say otherwise.
GateEvents ==
    LET own(item, to, updates) ==
            Event("evt_0", 1, 1, "luoyang", <<"caocao">>, "OWNERSHIP_CHANGE", "gives " \o item,
                  [item_id |-> item, old_owner_id |-> "caocao", new_owner_id |-> to],
                  OneUpdate("item", item, updates))
        other(summary, actors, order, turn, patch) ==
            Event("evt_0", turn, order, "luoyang", actors, "OTHER", summary, EmptyDict, patch)
        travel(who, from, to) ==
            Event("evt_0", 1, 1, from, <<who>>, "TRAVEL", who \o " travels",
                  [character_id |-> who, from_location_id |-> from, to_location_id |-> to],
                  OneUpdate("character", who, [location_id |-> to]))
        touch(who) == OneUpdate("character", who, [metadata |-> [last_turn |-> 1]])
    IN << own("seal_001", "liubei", [owner_id |-> "liubei"]),
          own("seal_001", "player_001", [owner_id |-> "player_001"]),
          own("sword_001", "liubei", [owner_id |-> "liubei", location_id |-> "xuchang"]),
          own("sword_001", "liubei", [owner_id |-> "liubei"]),
          own("sword_001", "ghost", [owner_id |-> "ghost"]),
          other("dead actor", <<"lvbu">>, 1, 1, touch("lvbu")),
          Event("evt_0", 1, 1, "luoyang", <<"liubei">>, "DEATH", "caocao dies",
                [character_id |-> "caocao"],
                OneUpdate("character", "caocao", [alive |-> FALSE])),
          other("caocao vanishes", <<"liubei">>, 1, 1,
                OneUpdate("character", "caocao", [alive |-> FALSE])),
          Event("evt_0", 1, 1, "luoyang", <<"lvbu">>, "REVIVAL", "lvbu returns", EmptyDict,
                OneUpdate("character", "lvbu", [alive |-> TRUE])),
          travel("caocao", "luoyang", "xuchang"),
          other("caocao teleports", <<"caocao">>, 1, 1,
                OneUpdate("character", "caocao", [location_id |-> "xuchang"])),
          travel("liubei", "xuchang", "chengdu"),
          Event("evt_0", 1, 1, "luoyang", <<"caocao">>, "FACTION_CHANGE", "caocao joins shu",
                [character_id |-> "caocao", old_faction_id |-> "wei", new_faction_id |-> "shu"],
                OneUpdate("character", "caocao", [faction_id |-> "shu"])),
          Event("evt_0", 1, 2, "luoyang", <<>>, "TIME_ADVANCE", "time passes",
                [time_anchor |-> "t2"],
                StatePatch(<<>>, Some(TimeUpdate("t2", Some(TimeAnchor("t2", 2)))),
                           Nothing, <<>>, Nothing)),
          Event("evt_0", 1, 1, "luoyang", <<>>, "TIME_ADVANCE", "time rewinds",
                [time_anchor |-> "t0"],
                StatePatch(<<>>, Some(TimeUpdate(None, Some(TimeAnchor("t0", 0)))),
                           Nothing, <<>>, Nothing)),
          Event("evt_0", 1, 1, "luoyang", <<"player_001">>, "QUEST_START", "quest starts",
                [quest_id |-> "q1"],
                StatePatch(<<>>, Nothing, Some(<<QuestUpdate("q1", "active", EmptyDict)>>),
                           <<>>, Nothing)),
          Event("evt_0", 1, 1, "luoyang", <<"player_001">>, "QUEST_COMPLETE", "quest done",
                [quest_id |-> "q1"],
                StatePatch(<<>>, Nothing, Some(<<QuestUpdate("q1", "completed", EmptyDict)>>),
                           <<>>, Nothing)),
          Event("evt_0", 1, 1, "xuchang", <<"liubei">>, "ITEM_CREATE", "a bow is made",
                [item_id |-> "bow_001"],
                OneUpdate("item", "bow_001",
                          [name |-> "Bow", owner_id |-> "liubei", location_id |-> "luoyang"])),
          other("player picks up", <<"player_001">>, 1, 1,
                PlayerPatch([inventory_add |-> <<"sword_001">>])),
          other("player moves", <<"player_001">>, 1, 1, PlayerPatch([location_id |-> "xuchang"])),
          other("ghost joins", <<"player_001">>, 1, 1, PlayerPatch([party |-> <<"ghost">>])),
          other("conversation continues", <<"player_001">>, 1, 1, touch("player_001")),
          Event("evt_0", 1, 1, "luoyang", <<"caocao">>, "RELATIONSHIP_CHANGE", "an alliance",
                EmptyDict,
                OneUpdate("character", "caocao", [metadata |-> [relationship_changes |-> 1]])),
          other("a hidden alliance", <<"caocao">>, 1, 1,
                OneUpdate("character", "caocao", [metadata |-> [relationship_changes |-> 1]])),
          other("the sword is sworn", <<"caocao">>, 1, 1,
                StatePatch(<<>>, Nothing, Nothing,
                           <<Constraint("c_sword", "unique_item", "the sword is unique",
                                        "sword_001", EmptyDict)>>, Nothing)),
          other("a memory", <<"player_001">>, 0, 1, touch("player_001")),
          other("later", <<"player_001">>, 2, 1, touch("player_001")),
          other("next turn", <<"player_001">>, 1, 2, touch("player_001")),
          other("misfiled death", <<"liubei">>, 1, 1,
                StatePatch(<<EntityUpdate("caocao", "character", "ghost", [alive |-> FALSE])>>,
                           Nothing, Nothing, <<>>, Nothing)),
          other("caocao recovers", <<"liubei">>, 1, 1,
                OneUpdate("character", "caocao", [alive |-> TRUE])),
          other("caocao is back", <<"caocao">>, 2, 1,
                OneUpdate("character", "caocao", [location_id |-> "luoyang"])),
          own("sword_001", "xuchang", [owner_id |-> "xuchang"]),
          \* an item made together with a hard constraint on its owner
          Event("evt_0", 1, 1, "unknown", <<"player_001">>, "ITEM_CREATE", "a ring is promised",
                [item_id |-> "ring_001"],
                StatePatch(<<EntityUpdate("ring_001", "item", "ring_001",
                                          [name |-> "Ring", location_id |-> "unknown"])>>,
                           Nothing, Nothing,
                           <<Constraint("c_ring", "unique_item", "the ring is liubei's",
                                        "ring_001", [owner_id |-> "liubei"])>>,
                           Nothing)) >>

\* The extractor gives every event of a batch its own event_id
WithIds(batch, first) ==
    [i \in 1..Len(batch) |-> [batch[i] EXCEPT !.event_id = "evt_" \o ToString(first + i - 1)]]

RECURSIVE SeqsUpTo(_, _)
SeqsUpTo(S, n) ==
    IF n = 0 THEN {<<>>}
    ELSE LET shorter == SeqsUpTo(S, n - 1)
         IN shorter \cup {Append(b, e) : b \in {x \in shorter : Len(x) = n - 1}, e \in S}

GateBatches == {WithIds(b, 1) : b \in SeqsUpTo(Range(GateEvents), MaxBatch)}

----------------------------------------------------------------------------
(* SpecGate: the gate and the applier on every (state, batch) of the inputs *)

NoValue == <<>>

GateInit ==
    /\ gs \in GateStates
    /\ gB \in GateBatches
    /\ gpc = "input"
    /\ gres = NoValue /\ gapp = NoValue /\ gfix = NoValue /\ gtemp = NoValue
    /\ gtext = NoValue
    /\ gheap = [objs |-> <<gs>>, input |-> 1, ref |-> 1]
    /\ ExtractOff
    /\ store = Nothing /\ log = <<>> /\ req = <<>> /\ started = 0 /\ version = 0
    /\ av = <<>> /\ ares = NoValue

\* The orders in which iterating a Python set of strings can yield its
\* elements; the order follows the interpreter's per-process string hashing
Orderings(S) == {q \in [1..Cardinality(S) -> S] : Range(q) = S}

\* The sets the f-strings of a result's messages print
PrintedSets(result) ==
    {result.violations[n].message.set : n \in 1..Len(result.violations)} \ {{}}

\* The violation list with every message formatted, the sets printed in the
\* order one interpreter run iterates them
Formatted(result, order) ==
    [n \in 1..Len(result.violations) |->
        [rule_id |-> result.violations[n].rule_id,
         entity_id |-> result.violations[n].entity_id,
         severity |-> result.violations[n].severity,
         message |-> <<result.violations[n].message.tpl, result.violations[n].message.args,
                       IF result.violations[n].message.set = {} THEN <<>>
                       ELSE order[result.violations[n].message.set]>>]]

Formattings(result) ==
    {Formatted(result, order) :
        order \in {f \in [PrintedSets(result) ->
                              UNION {Orderings(S) : S \in PrintedSets(result)}] :
                      \A S \in PrintedSets(result) : f[S] \in Orderings(S)}}

\* What two interpreter runs return for the same call
TwoRuns(res) ==
    IF res.ok THEN {[a |-> x, b |-> y] : x \in Formattings(res.st), y \in Formattings(res.st)}
    ELSE {NoValue}

\* gate.validate_event_patch(current_state=state, pending_events=events)
GateValidate ==
    /\ gpc = "input"
    /\ gres' = validate_event_patch(gs, gB)
    /\ gtemp' = apply_patches_to_state(gs, gB)
    /\ gtext' \in TwoRuns(gres')
    /\ gheap' = [objs |-> apply_patches_to_state_in(gheap.objs, 1, gB).objs,
                 input |-> 1, ref |-> 1]
    /\ gpc' = "validated"
    /\ UNCHANGED <<gs, gB, gapp, gfix>>
    /\ UNCHANGED <<wvars, avars, xvars>>

\* apply_multiple_patches(state, events)
GateApply ==
    /\ gpc = "validated"
    /\ gapp' = apply_multiple_patches(gs, gB)
    /\ \E r \in {apply_multiple_patches_in(gheap.objs, 1, gB)} :
          gheap' = [objs |-> r.objs, input |-> 1, ref |-> r.ref]
    /\ gpc' = "applied"
    /\ UNCHANGED <<gs, gB, gres, gfix, gtemp, gtext>>
    /\ UNCHANGED <<wvars, avars, xvars>>

\* apply_state_patch(updated_state, validation_result.fixes, fix_event_id, current_turn)
GateApplyFixes ==
    /\ gpc = "applied"
    /\ gres.ok /\ gres.st.action = "AUTO_FIX" /\ IsSome(gres.st.fixes)
    /\ gapp.ok
    /\ gfix' = apply_state_patch(gapp.st, Get(gres.st.fixes), "evt_fix", gs.meta.turn + 1)
    /\ \E r \in {apply_state_patch_in(gheap.objs, gheap.ref, Get(gres.st.fixes),
                                       "evt_fix", gs.meta.turn + 1)} :
          gheap' = [objs |-> r.objs, input |-> gheap.ref, ref |-> r.ref]
    /\ gpc' = "fixed"
    /\ UNCHANGED <<gs, gB, gres, gapp, gtemp, gtext>>
    /\ UNCHANGED <<wvars, avars, xvars>>

GateNext == GateValidate \/ GateApply \/ GateApplyFixes

SpecGate == GateInit /\ [][GateNext]_vars

----------------------------------------------------------------------------
(* _determine_action over arbitrary violation lists *)

MaxViolations == 3

\* One violation of each kind a rule can report, and a warning that is not fixable
SampleViolations ==
    { RuleViolation("R3", "error", Msg("R3_actor", <<"lvbu", "lvbu", "dead actor">>, {}),
                    "lvbu", FALSE),
      RuleViolation("R4", "error", Msg("R4_death", <<"caocao", "caocao">>, {}),
                    "caocao", FALSE),
      RuleViolation("R1", "error", Msg("R1_owners", <<"seal_001", "seal_001">>,
                                       {"caocao", "liubei"}), "seal_001", FALSE),
      RuleViolation("R2", "warning", Msg("R2_location", <<"sword_001", "sword_001">>, {}),
                    "sword_001", TRUE),
      RuleViolation("R2", "warning", Msg("R2_location", <<"seal_001", "seal_001">>, {}),
                    "seal_001", FALSE) }

ActionInit ==
    /\ av \in SeqsUpTo(SampleViolations, MaxViolations)
    /\ ares = NoValue
    /\ gs = NoValue /\ gB = NoValue /\ gpc = "off"
    /\ gres = NoValue /\ gapp = NoValue /\ gfix = NoValue /\ gtemp = NoValue
    /\ gtext = NoValue /\ gheap = NoValue
    /\ ExtractOff
    /\ store = Nothing /\ log = <<>> /\ req = <<>> /\ started = 0 /\ version = 0

\* self._determine_action(violations, current_state, temp_state)
DetermineAction ==
    /\ ares = NoValue
    /\ ares' = determine_action(av, World, World)
    /\ UNCHANGED <<av, gvars, wvars, xvars>>

ActionNext == DetermineAction

SpecAction == ActionInit /\ [][ActionNext]_vars

----------------------------------------------------------------------------
(* Repository: backend/database/repository.py *)

\* _fix_missing_locations_in_json: get_state's repair before validation
fix_missing_locations_in_json(state) ==
    LET chars == state.entities.characters
        items == state.entities.items
        locs == state.entities.locations
        required ==
            (IF Truthy(state.player.location_id) THEN {state.player.location_id} ELSE {})
            \cup {chars[c].location_id : c \in {x \in DOMAIN chars : Truthy(chars[x].location_id)}}
            \cup {items[i].location_id : i \in {x \in DOMAIN items : Truthy(items[x].location_id)}}
            \cup {items[i].owner_id :
                    i \in {x \in DOMAIN items : /\ Truthy(items[x].owner_id)
                                                /\ items[x].owner_id \notin DOMAIN chars}}
        missing == required \ DOMAIN locs
    IN [state EXCEPT !.entities.locations =
            [l \in DOMAIN locs \cup missing |->
                IF l \in DOMAIN locs THEN locs[l] ELSE Location(l, l, None, EmptyDict)]]

\* Repository.get_state on a story that has a row: Ok(state), or Raised when
\* CanonicalState.model_validate rejects the stored document
get_state(row) ==
    LET fixed == fix_missing_locations_in_json(Get(row))
    IN IF StateValid(fixed) THEN Ok(fixed) ELSE Raised(fixed)

\* Repository.save_state: the document INSERT OR REPLACE writes
save_state(state) == Some(ensure_location_references(state))

\* Repository.append_event: Ok(new log), or Raised when the event_id is stored
append_event(events, event) ==
    IF \E i \in 1..Len(events) : events[i].event_id = event.event_id
    THEN Raised(events)
    ELSE Ok(Append(events, event))

----------------------------------------------------------------------------
(* POST /draft/process: backend/api/routes.py *)

MaxRequests == 2

Requests == {"r1", "r2"}

Idle ==
    [pc |-> "idle", no |-> 0, state |-> NoValue, turn |-> 0, events |-> <<>>,
     action |-> "", toAppend |-> <<>>, updated |-> NoValue, idx |-> 0, final |-> "",
     existed |-> FALSE, loadedVer |-> 0, writes |-> 0, saved |-> FALSE, stale |-> FALSE]

\* What the LLM may answer for a draft: batches of the test events.  The
\* extractor copies the turn the LLM wrote into the event (_convert_to_event),
\* which is the request's turn unless the batch keeps its own.
WfTemplates ==
    LET g == GateEvents
    IN { [events |-> <<g[12], g[14]>>, keepTurn |-> FALSE],
         [events |-> <<[g[4] EXCEPT !.time.order = 2]>>, keepTurn |-> FALSE],
         [events |-> <<g[6]>>, keepTurn |-> FALSE],
         [events |-> <<g[11]>>, keepTurn |-> FALSE],
         [events |-> <<[g[22] EXCEPT !.turn = 0]>>, keepTurn |-> TRUE] }

EventId(no, i) == "evt_" \o ToString(no) \o "_" \o ToString(i)
FixEventId(no) == "evt_fix_" \o ToString(no)

\* _convert_to_event over the batch the LLM returned
ConvertBatch(t, turn, no) ==
    [i \in 1..Len(t.events) |->
        [t.events[i] EXCEPT !.event_id = EventId(no, i),
                            !.turn = IF t.keepTurn THEN @ ELSE turn]]

\* The fix event process_draft builds for an AUTO_FIX verdict
FixEvent(updated_state, fixes, current_turn, no) ==
    Event(FixEventId(no), current_turn, updated_state.time.anchor.order,
          updated_state.player.location_id, <<updated_state.player.id>>, "OTHER",
          "auto fix", [fix_type |-> "auto_fix"], fixes)

\* Which verdicts lead to append_event and save_state
Commits(action) == action \in {"PASS", "AUTO_FIX"}

\* A variant that appends the committed events last to first
EventToAppendReversed(events, idx) == events[Len(events) + 1 - idx]

\* The order in which the committed events are appended
EventToAppend(events, idx) == events[idx]

\* A variant in which a rejected draft still records an event and saves
NoCommitRecording(pc, action, final) ==
    [pc |-> IF pc = "done" THEN "append" ELSE pc, action |-> action, final |-> final,
     toAppend |-> <<create_default_event(World, 1, "evt_rejected")>>, updated |-> World]

\* The request's fields after a verdict that commits nothing
NoCommit(pc, action, final) ==
    [pc |-> pc, action |-> action, final |-> final, toAppend |-> <<>>, updated |-> NoValue]

\* A variant that saves the fixed state without logging the fix event
CommitFixedUnlogged(events, applied, fixes, fixed, current_turn, no) ==
    IF ~fixed.ok THEN NoCommit("failed", "AUTO_FIX", "ERROR")
    ELSE [pc |-> "append", action |-> "AUTO_FIX", final |-> "AUTO_FIX",
          toAppend |-> events, updated |-> fixed.st]

\* AUTO_FIX with fixes: the fix event is appended after the batch and the
\* fixes are applied on top of the batch's state
CommitFixed(events, applied, fixes, fixed, current_turn, no) ==
    IF ~fixed.ok THEN NoCommit("failed", "AUTO_FIX", "ERROR")
    ELSE [pc |-> "append", action |-> "AUTO_FIX", final |-> "AUTO_FIX",
          toAppend |-> Append(events, FixEvent(applied.st, fixes, current_turn, no)),
          updated |-> fixed.st]

\* PASS, AUTO_FIX with fixes, AUTO_FIX without fixes (treated as PASS)
Commit(events, vr, applied, current_turn, no) ==
    IF ~applied.ok THEN NoCommit("failed", vr.action, "ERROR")
    ELSE IF vr.action = "AUTO_FIX" /\ IsSome(vr.fixes)
    THEN CommitFixed(events, applied, Get(vr.fixes),
                     apply_state_patch(applied.st, Get(vr.fixes), FixEventId(no), current_turn),
                     current_turn, no)
    ELSE [pc |-> "append", action |-> vr.action, final |-> "PASS",
          toAppend |-> events, updated |-> applied.st]

\* The branch process_draft takes on the gate's verdict
OnVerdict(state, events, vr, current_turn, no) ==
    IF ~vr.ok THEN NoCommit("failed", "RAISED", "ERROR")
    ELSE IF ~Commits(vr.st.action) THEN NoCommit("done", vr.st.action, vr.st.action)
    ELSE Commit(events, vr.st, apply_multiple_patches(state, events), current_turn, no)

\* The synchronous part of process_draft between the extractor's answer and the
\* first append_event: the gate, the applier and the fix event.
\* [pc, action, final, toAppend, updated]
Decide(state, events, current_turn, no) ==
    OnVerdict(state, events, validate_event_patch(state, events), current_turn, no)

WfInit ==
    /\ store \in {Nothing, Some(World)}
    /\ log = <<>>
    /\ req = [r \in Requests |-> Idle]
    /\ started = 0
    /\ version = 0
    /\ gs = NoValue /\ gB = NoValue /\ gpc = "off"
    /\ gres = NoValue /\ gapp = NoValue /\ gfix = NoValue /\ gtemp = NoValue
    /\ gtext = NoValue /\ gheap = NoValue
    /\ ExtractOff
    /\ av = <<>> /\ ares = NoValue

\* A request arrives and process_draft awaits repo.get_state
Load(r) ==
    /\ req[r].pc = "idle"
    /\ started < MaxRequests
    /\ r = "r2" => req["r1"].pc # "idle"
    /\ started' = started + 1
    /\ LET base == [Idle EXCEPT !.no = started + 1, !.loadedVer = version]
       IN IF ~IsSome(store)
          THEN req' = [req EXCEPT ![r] = [base EXCEPT !.pc = "init_get"]]
          ELSE \E g \in {get_state(store)} :
                  IF g.ok
                  THEN req' = [req EXCEPT ![r] = [base EXCEPT !.pc = "extract",
                                                              !.existed = TRUE,
                                                              !.state = g.st,
                                                              !.turn = g.st.meta.turn + 1]]
                  ELSE req' = [req EXCEPT ![r] = [base EXCEPT !.pc = "failed",
                                                              !.existed = TRUE,
                                                              !.final = "ERROR"]]
    /\ UNCHANGED <<store, log, version>>
    /\ UNCHANGED <<gvars, avars, xvars>>

\* initialize_state awaits get_state again and returns the state if there is one
InitGet(r) ==
    /\ req[r].pc = "init_get"
    /\ IF ~IsSome(store)
       THEN req' = [req EXCEPT ![r].pc = "init_save"]
       ELSE \E g \in {get_state(store)} :
               IF g.ok
               THEN req' = [req EXCEPT ![r].pc = "extract", ![r].state = g.st,
                                       ![r].turn = g.st.meta.turn + 1,
                                       ![r].loadedVer = version]
               ELSE req' = [req EXCEPT ![r].pc = "failed", ![r].final = "ERROR"]
    /\ UNCHANGED <<store, log, started, version>>
    /\ UNCHANGED <<gvars, avars, xvars>>

\* initialize_state saves the default state
InitSave(r) ==
    /\ req[r].pc = "init_save"
    /\ store' = save_state(InitialState("s1"))
    /\ version' = version + 1
    /\ req' = [req EXCEPT ![r].pc = "extract",
                          ![r].state = Get(save_state(InitialState("s1"))),
                          ![r].turn = 1,
                          ![r].loadedVer = version + 1,
                          ![r].writes = @ + 1]
    /\ UNCHANGED <<log, started>>
    /\ UNCHANGED <<gvars, avars, xvars>>

\* The extractor answers with open questions: ASK_USER without the gate
ExtractQuestions(r) ==
    /\ req[r].pc = "extract"
    /\ req' = [req EXCEPT ![r].pc = "done", ![r].final = "ASK_USER"]
    /\ UNCHANGED <<store, log, started, version>>
    /\ UNCHANGED <<gvars, avars, xvars>>

\* The extractor answers with events (the default event when the LLM gave
\* none); the gate judges them and the applier computes the state to save
ExtractEvents(r) ==
    /\ req[r].pc = "extract"
    /\ \E events \in {ConvertBatch(t, req[r].turn, req[r].no) : t \in WfTemplates}
                     \cup {<<create_default_event(req[r].state, req[r].turn,
                                                  EventId(req[r].no, 1))>>} :
          \E d \in {Decide(req[r].state, events, req[r].turn, req[r].no)} :
             req' = [req EXCEPT ![r].pc = d.pc, ![r].events = events,
                                ![r].action = d.action, ![r].final = d.final,
                                ![r].toAppend = d.toAppend, ![r].updated = d.updated,
                                ![r].idx = 1]
    /\ UNCHANGED <<store, log, started, version>>
    /\ UNCHANGED <<gvars, avars, xvars>>

\* await repo.append_event for the next event of the batch (or the fix event)
AppendEvent(r) ==
    /\ req[r].pc = "append"
    /\ \E a \in {append_event(log, EventToAppend(req[r].toAppend, req[r].idx))} :
          IF a.ok
          THEN /\ log' = a.st
               /\ req' = [req EXCEPT ![r].idx = @ + 1,
                                     ![r].writes = @ + 1,
                                     ![r].pc = IF req[r].idx = Len(req[r].toAppend)
                                               THEN "save" ELSE "append"]
          ELSE /\ log' = log
               /\ req' = [req EXCEPT ![r].pc = "failed", ![r].final = "ERROR"]
    /\ UNCHANGED <<store, started, version>>
    /\ UNCHANGED <<gvars, avars, xvars>>

\* await repo.save_state(story_id, updated_state)
SaveState(r) ==
    /\ req[r].pc = "save"
    /\ store' = save_state(req[r].updated)
    /\ version' = version + 1
    /\ req' = [req EXCEPT ![r].pc = "list", ![r].saved = TRUE, ![r].writes = @ + 1,
                          ![r].stale = (version # req[r].loadedVer)]
    /\ UNCHANGED <<log, started>>
    /\ UNCHANGED <<gvars, avars, xvars>>

\* await repo.list_recent_events and return the response
Respond(r) ==
    /\ req[r].pc = "list"
    /\ req' = [req EXCEPT ![r].pc = "done"]
    /\ UNCHANGED <<store, log, started, version>>
    /\ UNCHANGED <<gvars, avars, xvars>>

\* A store operation fails or the request is cancelled at an await
Abort(r) ==
    /\ req[r].pc \in {"init_get", "init_save", "extract", "append", "save", "list"}
    /\ req' = [req EXCEPT ![r] = [Idle EXCEPT !.pc = "failed", !.final = "ERROR",
                                               !.no = req[r].no,
                                               !.existed = req[r].existed,
                                               !.writes = req[r].writes,
                                               !.saved = req[r].saved,
                                               !.stale = req[r].stale]]
    /\ UNCHANGED <<store, log, started, version>>
    /\ UNCHANGED <<gvars, avars, xvars>>

\* The response is sent; the slot is free for the next request
Finish(r) ==
    /\ req[r].pc \in {"done", "failed"}
    /\ req' = [req EXCEPT ![r] = Idle]
    /\ UNCHANGED <<store, log, started, version>>
    /\ UNCHANGED <<gvars, avars, xvars>>

Next ==
    \E r \in Requests :
        \/ Load(r)
        \/ InitGet(r)
        \/ InitSave(r)
        \/ ExtractQuestions(r)
        \/ ExtractEvents(r)
        \/ AppendEvent(r)
        \/ SaveState(r)
        \/ Respond(r)
        \/ Abort(r)
        \/ Finish(r)

Spec == WfInit /\ [][Next]_vars

----------------------------------------------------------------------------
(* SpecExtract: EventExtractor.extract_events, one step per LLM call *)

max_retries == 1

\* base_state with the player also present among the characters, as a story
\* needs in which the player owns items
PlayerInCast ==
    [World EXCEPT !.entities.characters =
        @ @@ ("player_001" :> Character("player_001", "Player", "luoyang", TRUE, None,
                                        [mood |-> "calm"]))]

ExtractStates == {World, InitialState("s1"), PlayerInCast}

ExtractTurn == 1

ExtractionResult(events, open_questions, requires_user_input) ==
    [events |-> events, open_questions |-> open_questions,
     requires_user_input |-> requires_user_input]

ExtractedData(kind, events, open_questions) ==
    [kind |-> kind, events |-> events, open_questions |-> open_questions]

\* An event of the LLM output that Event's validators reject
MalformedEvent == [GateEvents[12] EXCEPT !.payload = EmptyDict]

\* What json.loads can return from an LLM answer: null, a number, or an object
\* with the keys events and open_questions
LLMData ==
    LET g == GateEvents
    IN { ExtractedData("null", <<>>, <<>>),
         ExtractedData("scalar", <<>>, <<>>),
         ExtractedData("dict", <<>>, <<>>),
         ExtractedData("dict", <<g[22]>>, <<>>),
         ExtractedData("dict", <<g[12], g[14]>>, <<>>),
         ExtractedData("dict", <<MalformedEvent>>, <<>>),
         ExtractedData("dict", <<g[14], MalformedEvent>>, <<>>),
         ExtractedData("dict", <<>>, <<"who?">>),
         ExtractedData("dict", <<g[22]>>, <<"who?">>),
         ExtractedData("dict", <<MalformedEvent>>, <<"who?">>) }

\* _convert_to_event for one event of the output
convert_to_event(extracted_event, turn, n) ==
    [extracted_event EXCEPT !.event_id = EventId(turn, n)]

\* The loop over extracted_data["events"]: an event whose validation raises is
\* printed and skipped
RECURSIVE ParseEvents(_, _, _, _)
ParseEvents(events, event_data, turn, n) ==
    IF event_data = <<>> THEN events
    ELSE ParseEvents(IF EventValid(convert_to_event(Head(event_data), turn, n))
                     THEN Append(events, convert_to_event(Head(event_data), turn, n))
                     ELSE events,
                     Tail(event_data), turn, n + 1)

\* A variant of the result that adds the default event to whatever was parsed
build_result_always_default(canonical_state, extracted_data, turn) ==
    IF extracted_data.kind = "scalar" THEN Raised(NoValue)
    ELSE Ok(ExtractionResult(
                Append(IF extracted_data.kind = "dict"
                       THEN ParseEvents(<<>>, extracted_data.events, turn, 1) ELSE <<>>,
                       create_default_event(canonical_state, turn, EventId(turn, 0))),
                IF extracted_data.kind = "dict" THEN extracted_data.open_questions ELSE <<>>,
                extracted_data.kind = "dict" /\ extracted_data.open_questions # <<>>))

\* extract_events after the LLM calls: the ExtractionResult built from
\* extracted_data, or the TypeError of '"open_questions" in 5'
build_result(canonical_state, extracted_data, turn) ==
    IF extracted_data.kind = "null"
    THEN Ok(ExtractionResult(<<create_default_event(canonical_state, turn, EventId(turn, 0))>>,
                             <<>>, FALSE))
    ELSE IF extracted_data.kind = "scalar" THEN Raised(NoValue)
    ELSE LET open_questions == extracted_data.open_questions
             requires_user_input == open_questions # <<>>
             events == ParseEvents(<<>>, extracted_data.events, turn, 1)
         IN Ok(ExtractionResult(
                   IF events = <<>> /\ ~requires_user_input
                   THEN <<create_default_event(canonical_state, turn, EventId(turn, 0))>>
                   ELSE events,
                   open_questions, requires_user_input))

LLMCall(mode, api, outcome) ==
    [mode |-> mode, api |-> api, attempt |-> xattempt, reminder |-> xattempt > 0,
     outcome |-> outcome]

\* 'except Exception' of _call_llm_with_function_calling and of extract_events:
\* retry tool mode once, then fall back to JSON mode
ToolAttemptFailed ==
    IF xattempt < max_retries
    THEN xpc' = "tool_forced" /\ xattempt' = xattempt + 1 /\ xdata' = xdata
    ELSE xpc' = "json_object" /\ xattempt' = 0 /\ xdata' = xdata

\* A variant in which the failure of JSON mode is not caught by extract_events
JsonAttemptFailedRaising ==
    IF xattempt < max_retries
    THEN xpc' = "json_object" /\ xattempt' = xattempt + 1 /\ xdata' = xdata
    ELSE xpc' = "raised" /\ xattempt' = xattempt /\ xdata' = xdata

\* 'except Exception' of _call_llm_with_retry and of extract_events: retry JSON
\* mode once, then go on with extracted_data = None
JsonAttemptFailed ==
    IF xattempt < max_retries
    THEN xpc' = "json_object" /\ xattempt' = xattempt + 1 /\ xdata' = xdata
    ELSE xpc' = "parse" /\ xattempt' = xattempt /\ xdata' = ExtractedData("null", <<>>, <<>>)

\* A variant in which a parsed answer does not stop the calls
ReturnedAndCallAgain(data) == xpc' = "json_object" /\ xattempt' = 0 /\ xdata' = data

\* A mode returns the parsed data
Returned(data) == xpc' = "parse" /\ xattempt' = xattempt /\ xdata' = data

ExtractInit ==
    /\ xs \in ExtractStates
    /\ xpc = "tool_forced" /\ xattempt = 0 /\ xcalls = <<>>
    /\ xdata = NoValue /\ xres = NoValue /\ xapp = NoValue
    /\ gs = NoValue /\ gB = NoValue /\ gpc = "off"
    /\ gres = NoValue /\ gapp = NoValue /\ gfix = NoValue /\ gtemp = NoValue
    /\ gtext = NoValue /\ gheap = NoValue
    /\ store = Nothing /\ log = <<>> /\ req = <<>> /\ started = 0 /\ version = 0
    /\ av = <<>> /\ ares = NoValue

\* chat.completions.create with tool_choice forcing extract_events
CallToolForced ==
    /\ xpc = "tool_forced"
    /\ \/ xcalls' = Append(xcalls, LLMCall("tool", "forced", "raised")) /\ ToolAttemptFailed
       \/ /\ xcalls' = Append(xcalls, LLMCall("tool", "forced", "refused"))
          /\ xpc' = "tool_auto" /\ UNCHANGED <<xattempt, xdata>>
       \/ /\ xcalls' = Append(xcalls, LLMCall("tool", "forced", "returned"))
          /\ \E data \in LLMData : Returned(data)
    /\ UNCHANGED <<xs, xres, xapp>>
    /\ UNCHANGED <<gvars, wvars, avars>>

\* The same call with tool_choice "auto", after the API refused the forced one
CallToolAuto ==
    /\ xpc = "tool_auto"
    /\ \/ xcalls' = Append(xcalls, LLMCall("tool", "auto", "raised")) /\ ToolAttemptFailed
       \/ /\ xcalls' = Append(xcalls, LLMCall("tool", "auto", "returned"))
          /\ \E data \in LLMData : Returned(data)
    /\ UNCHANGED <<xs, xres, xapp>>
    /\ UNCHANGED <<gvars, wvars, avars>>

\* chat.completions.create with response_format json_object
CallJsonObject ==
    /\ xpc = "json_object"
    /\ \/ /\ xcalls' = Append(xcalls, LLMCall("json", "json_object", "raised"))
          /\ JsonAttemptFailed
       \/ /\ xcalls' = Append(xcalls, LLMCall("json", "json_object", "refused"))
          /\ xpc' = "json_schema" /\ UNCHANGED <<xattempt, xdata>>
       \/ /\ xcalls' = Append(xcalls, LLMCall("json", "json_object", "returned"))
          /\ \E data \in LLMData : Returned(data)
    /\ UNCHANGED <<xs, xres, xapp>>
    /\ UNCHANGED <<gvars, wvars, avars>>

\* The same call with response_format json_schema, after json_object raised
CallJsonSchema ==
    /\ xpc = "json_schema"
    /\ \/ /\ xcalls' = Append(xcalls, LLMCall("json", "json_schema", "raised"))
          /\ JsonAttemptFailed
       \/ /\ xcalls' = Append(xcalls, LLMCall("json", "json_schema", "returned"))
          /\ \E data \in LLMData : Returned(data)
    /\ UNCHANGED <<xs, xres, xapp>>
    /\ UNCHANGED <<gvars, wvars, avars>>

\* Parse extracted_data, add the default event, return the ExtractionResult
ExtractReturn ==
    /\ xpc = "parse"
    /\ \E r \in {build_result(xs, xdata, ExtractTurn)} :
          /\ xres' = r
          /\ xpc' = IF r.ok THEN "done" ELSE "raised"
    /\ UNCHANGED <<xs, xattempt, xcalls, xdata, xapp>>
    /\ UNCHANGED <<gvars, wvars, avars>>

\* process_draft applies the returned events when there is nothing to ask
ExtractApply ==
    /\ xpc = "done"
    /\ ~xres.st.requires_user_input
    /\ xapp' = apply_multiple_patches(xs, xres.st.events)
    /\ xpc' = "applied"
    /\ UNCHANGED <<xs, xattempt, xcalls, xdata, xres>>
    /\ UNCHANGED <<gvars, wvars, avars>>

\* The steps of extract_events itself
ExtractStep ==
    \/ CallToolForced \/ CallToolAuto \/ CallJsonObject \/ CallJsonSchema
    \/ ExtractReturn

ExtractNext == ExtractStep \/ ExtractApply

SpecExtract == ExtractInit /\ [][ExtractNext]_vars

\* Every awaited LLM call returns or raises (the client has a request
\* timeout), and the coroutine runs on between the calls
SpecExtractFair == SpecExtract /\ WF_vars(ExtractStep)

----------------------------------------------------------------------------
(* SpecLog: Repository.append_event called concurrently, one step per await *)

MaxAppends == 2

LogStories == {"s1", "s2"}

\* The events appended: two event ids, each with two contents
LogEvents == {[event_id |-> id, turn |-> turn] : id \in {"evt_1", "evt_2"}, turn \in 1..2}

NoCall == [pc |-> "idle", story_id |-> "", event |-> NoValue, calls |-> 0, last |-> ""]

StoredIds(rows) == {rows[n].event_id : n \in 1..Len(rows)}

\* SELECT event_id FROM events WHERE event_id = ?
select_event_id(rows, event_id) == event_id \in StoredIds(rows)

EventRow(story_id, event) ==
    [story_id |-> story_id, event_id |-> event.event_id, turn |-> event.turn]

\* A table whose event_id column is not a key
insert_event_without_key(rows, story_id, event) ==
    Ok(Append(rows, EventRow(story_id, event)))

\* INSERT INTO events ... and commit: event_id is the PRIMARY KEY of the table
insert_event(rows, story_id, event) ==
    IF event.event_id \in StoredIds(rows)
    THEN Raised(rows)
    ELSE Ok(Append(rows, EventRow(story_id, event)))

LogInit ==
    /\ log = <<>>
    /\ req = [r \in Requests |-> NoCall]
    /\ store = Nothing /\ started = 0 /\ version = 0
    /\ gs = NoValue /\ gB = NoValue /\ gpc = "off"
    /\ gres = NoValue /\ gapp = NoValue /\ gfix = NoValue /\ gtemp = NoValue
    /\ gtext = NoValue /\ gheap = NoValue
    /\ ExtractOff
    /\ av = <<>> /\ ares = NoValue

\* A caller enters append_event(story_id, event) and opens its connection
BeginAppend(r) ==
    /\ req[r].pc = "idle"
    /\ req[r].calls < MaxAppends
    /\ \E story_id \in LogStories, event \in LogEvents :
          req' = [req EXCEPT ![r] = [pc |-> "select", story_id |-> story_id,
                                     event |-> event, calls |-> req[r].calls + 1,
                                     last |-> ""]]
    /\ UNCHANGED <<log, store, started, version>>
    /\ UNCHANGED <<gvars, avars, xvars>>

\* The SELECT and the test of its row: ValueError when the id is stored
SelectEventId(r) ==
    /\ req[r].pc = "select"
    /\ req' = IF select_event_id(log, req[r].event.event_id)
              THEN [req EXCEPT ![r].pc = "idle", ![r].last = "ValueError"]
              ELSE [req EXCEPT ![r].pc = "insert"]
    /\ UNCHANGED <<log, store, started, version>>
    /\ UNCHANGED <<gvars, avars, xvars>>

\* The INSERT and the commit: the row is written, or sqlite raises
\* IntegrityError for the key, or OperationalError while the file is locked
InsertEvent(r) ==
    /\ req[r].pc = "insert"
    /\ \/ \E a \in {insert_event(log, req[r].story_id, req[r].event)} :
             /\ log' = a.st
             /\ req' = [req EXCEPT ![r].pc = "idle",
                                   ![r].last = IF a.ok THEN "ok" ELSE "IntegrityError"]
       \/ /\ log' = log
          /\ req' = [req EXCEPT ![r].pc = "idle", ![r].last = "OperationalError"]
    /\ UNCHANGED <<store, started, version>>
    /\ UNCHANGED <<gvars, avars, xvars>>

LogNext == \E r \in Requests : BeginAppend(r) \/ SelectEventId(r) \/ InsertEvent(r)

SpecLog == LogInit /\ [][LogNext]_vars

----------------------------------------------------------------------------
(* SpecPatch: apply_state_patch called again and again on its own result *)

MaxPatches == 2

\* World in the middle of a story: quests under way, a party, an inventory
\* and metadata on a character
Questing ==
    [World EXCEPT
        !.quest = [active |-> <<Quest("q1", "Find the seal", "active", EmptyDict)>>,
                   completed |-> <<Quest("q2", "Reach LuoYang", "completed", EmptyDict)>>],
        !.player.party = <<"caocao">>,
        !.player.inventory = <<"sword_001">>,
        !.entities.characters["caocao"].metadata = [title |-> "lord", mood |-> "calm"]]

PatchStates == {World, InitialState("s1"), Questing}

\* The patches of the state manager tests and their neighbours, each carried
\* by an event
PatchEvents ==
    LET carry(summary, patch) ==
            Event("evt_0", 1, 1, "luoyang", <<"player_001">>, "OTHER", summary, EmptyDict, patch)
        quest(id, status) ==
            StatePatch(<<>>, Nothing, Some(<<QuestUpdate(id, status, EmptyDict)>>), <<>>, Nothing)
    IN { carry("seal without owner", OneUpdate("item", "seal_001", [owner_id |-> None])),
         carry("sword nowhere",
               OneUpdate("item", "sword_001", [owner_id |-> None, location_id |-> None])),
         carry("sword to liubei", OneUpdate("item", "sword_001", [owner_id |-> "liubei"])),
         carry("sword to the tower", OneUpdate("item", "sword_001", [owner_id |-> "tower"])),
         carry("sword weighed", OneUpdate("item", "sword_001", [weight |-> 3])),
         carry("q1 starts", quest("q1", "active")),
         carry("q1 done", quest("q1", "completed")),
         carry("q1 fails", quest("q1", "failed")),
         carry("q2 again", quest("q2", "active")),
         carry("caocao angry",
               OneUpdate("character", "caocao", [metadata |-> [mood |-> "angry"]])),
         carry("caocao to chengdu",
               OneUpdate("character", "caocao", [location_id |-> "chengdu"])),
         carry("ghost dies", OneUpdate("character", "ghost", [alive |-> FALSE])),
         carry("bow without name", OneUpdate("item", "bow_001", [owner_id |-> "liubei"])),
         carry("bow by name only", OneUpdate("item", "bow_001", [name |-> "Bow"])),
         carry("bow made",
               OneUpdate("item", "bow_001", [name |-> "Bow", owner_id |-> "liubei"])),
         carry("hut without name",
               OneUpdate("location", "hut", [parent_location_id |-> "luoyang"])),
         carry("chengdu founded", OneUpdate("location", "chengdu", [name |-> "ChengDu"])),
         carry("shu founded", OneUpdate("faction", "shu", [name |-> "Shu"])),
         carry("wu without name", OneUpdate("faction", "wu", [leader_id |-> "liubei"])),
         carry("picks up twice",
               PlayerPatch([inventory_add |-> <<"sword_001", "sword_001">>])),
         carry("drops the sword", PlayerPatch([inventory_remove |-> <<"sword_001">>])),
         carry("liubei joins", PlayerPatch([party_add |-> <<"liubei">>])),
         carry("caocao leaves", PlayerPatch([party_remove |-> <<"caocao">>])),
         carry("inventory rewritten",
               PlayerPatch([inventory |-> <<"seal_001", "seal_001">>])),
         carry("player to the harbor", PlayerPatch([location_id |-> "harbor"])) }

PatchInit ==
    /\ gtemp \in PatchStates
    /\ gs = gtemp
    /\ gB = <<>>
    /\ gapp = Ok(gtemp)
    /\ gpc = "patch"
    /\ gres = NoValue /\ gfix = NoValue /\ gtext = NoValue /\ gheap = NoValue
    /\ ExtractOff
    /\ store = Nothing /\ log = <<>> /\ req = <<>> /\ started = 0 /\ version = 0
    /\ av = <<>> /\ ares = NoValue

\* apply_state_patch(state, event.state_patch, event.event_id, event.turn) on
\* the state the call before returned
PatchApply ==
    /\ gpc = "patch"
    /\ gapp.ok
    /\ Len(gB) < MaxPatches
    /\ \E ev \in PatchEvents :
          /\ gB' = Append(gB, [ev EXCEPT !.event_id = EventId(Len(gB) + 1, 1),
                                         !.turn = Len(gB) + 1])
          /\ gapp' = apply_state_patch(gapp.st, ev.state_patch, EventId(Len(gB) + 1, 1),
                                       Len(gB) + 1)
    /\ gs' = gapp.st
    /\ UNCHANGED <<gpc, gres, gfix, gtemp, gtext, gheap>>
    /\ UNCHANGED <<wvars, avars, xvars>>

\* apply_multiple_patches(state, events) on the first state and the same events
PatchApplyMany ==
    /\ gpc = "patch"
    /\ gB # <<>>
    /\ gfix' = apply_multiple_patches(gtemp, gB)
    /\ gpc' = "many"
    /\ UNCHANGED <<gs, gB, gres, gapp, gtemp, gtext, gheap>>
    /\ UNCHANGED <<wvars, avars, xvars>>

PatchNext == PatchApply \/ PatchApplyMany

SpecPatch == PatchInit /\ [][PatchNext]_vars

----------------------------------------------------------------------------
(* Properties of the gate and the applier (SpecGate, SpecAction) *)

GateDone == gpc \in {"validated", "applied", "fixed"}
Applied == gpc \in {"applied", "fixed"}

\* C2: whenever the gate answers PASS for a valid state and a batch of valid
\* events, the state apply_multiple_patches produces satisfies the referential
\* invariants of CanonicalState.validate_references.
C2_PassKeepsReferences ==
    (Applied /\ gres.ok /\ gres.st.action = "PASS" /\ gapp.ok)
        => validate_references(gapp.st)

\* C3: the action is decided by the violation list alone: PASS exactly when
\* the list is empty; with an error, ASK_USER with one question per error when
\* some error message carries a clarification marker and REWRITE otherwise;
\* with warnings only, AUTO_FIX when every warning is fixable and REWRITE
\* otherwise; PASS and AUTO_FIX never come with an error.
C3_ActionFollowsViolations ==
    ares # NoValue =>
        LET errs == {i \in 1..Len(av) : av[i].severity = "error"}
        IN /\ (ares.action = "PASS") <=> (av = <<>>)
           /\ errs # {} =>
                IF \E i \in errs : NeedsClarification(av[i])
                THEN /\ ares.action = "ASK_USER"
                     /\ IsSome(ares.questions)
                     /\ Len(Get(ares.questions)) = Cardinality(errs)
                ELSE ares.action = "REWRITE"
           /\ (errs = {} /\ av # <<>>) =>
                IF \A i \in 1..Len(av) : av[i].fixable
                THEN ares.action = "AUTO_FIX"
                ELSE ares.action = "REWRITE"
           /\ ares.action \in {"PASS", "AUTO_FIX"} => errs = {}

\* C3 witness: a fixable warning next to two errors, one of them about a dead
\* character, is answered ASK_USER with two questions.
C3_AskUserWithWarning ==
    /\ ares # NoValue
    /\ ares.action = "ASK_USER"
    /\ Len(av) = 3
    /\ \E i \in 1..3 : av[i].severity = "warning" /\ av[i].fixable
    /\ \E i \in 1..3 : av[i].severity = "error" /\ ~NeedsClarification(av[i])
    /\ Len(Get(ares.questions)) = 2

\* C8: after an AUTO_FIX verdict, the batch applied by apply_multiple_patches
\* and then the fixes applied by apply_state_patch give a state on which R2
\* reports nothing.
C8_FixedStateHasNoR2 ==
    (gpc = "fixed" /\ gfix.ok)
        => check_r2_item_location_consistency(gfix.st, gfix.st, <<>>) = <<>>

\* C9: validate_event_patch returns a ValidationResult for every valid state
\* and every batch of valid events; it never raises.
C9_GateNeverRaises == GateDone => gres.ok

\* C10: whenever the gate projects a temp_state, it equals the state the
\* applier produces for the same input in entities, player, time, quest and
\* constraints.
C10_ProjectionIsApplied ==
    (Applied /\ gapp.ok /\ gtemp.ok) =>
        /\ gtemp.st.entities = gapp.st.entities
        /\ gtemp.st.player = gapp.st.player
        /\ gtemp.st.time = gapp.st.time
        /\ gtemp.st.quest = gapp.st.quest
        /\ gtemp.st.constraints = gapp.st.constraints

----------------------------------------------------------------------------
(* Properties of POST /draft/process (Spec) *)

\* The request has taken the PASS or the AUTO_FIX branch
InCommit(r) ==
    /\ req[r].pc \in {"append", "save", "list", "done"}
    /\ req[r].final \in {"PASS", "AUTO_FIX"}

\* The events of the request that are in the log, in log order
LogOf(r) ==
    SelectSeq(log, LAMBDA e :
        \E i \in 1..Len(req[r].toAppend) : req[r].toAppend[i].event_id = e.event_id)

\* (turn, time.order) of a is not after that of b
KeyLeq(a, b) == a.turn < b.turn \/ (a.turn = b.turn /\ a.time.order <= b.time.order)

\* C1: a request on a story whose state exists that answers REWRITE or
\* ASK_USER has called neither save_state nor append_event, and unless another
\* request saved meanwhile the stored state is the one it loaded.
C1_RejectedWritesNothing ==
    \A r \in Requests :
        (req[r].pc = "done" /\ req[r].existed /\ req[r].final \in {"REWRITE", "ASK_USER"})
            => /\ req[r].writes = 0
               /\ ~req[r].saved
               /\ LogOf(r) = <<>>
               /\ version = req[r].loadedVer => store = Some(req[r].state)

\* C1 witness: the gate's REWRITE verdict on a story that has committed events
C1_GateRewriteAnswered ==
    \E r \in Requests :
        /\ req[r].pc = "done" /\ req[r].existed
        /\ req[r].final = "REWRITE" /\ req[r].action = "REWRITE"
        /\ log # <<>>

\* C4: for a committing request a reader sees either none of its events and
\* not its state, or all of its events and its state.
C4_CommitIsAtomic ==
    \A r \in Requests :
        InCommit(r) =>
            \/ LogOf(r) = <<>> /\ ~req[r].saved
            \/ Len(LogOf(r)) = Len(req[r].toAppend) /\ req[r].saved

\* C5 as stated: an event of a committing request is in the log only after
\* the request's state has been saved.
C5_AppendsAfterSave ==
    \A r \in Requests : (InCommit(r) /\ LogOf(r) # <<>>) => req[r].saved

\* C5 amended: the events of a committing request are appended in batch
\* order (the fix event last), and the state is saved after the last append.
C5_AppendsInOrderThenSave ==
    \A r \in Requests :
        InCommit(r) =>
            /\ LogOf(r) = SubSeq(req[r].toAppend, 1, req[r].idx - 1)
            /\ req[r].saved => LogOf(r) = req[r].toAppend

\* C5 witness: a two-event batch is in the log and its state is saved
C5_TwoEventsCommitted ==
    \E r \in Requests :
        /\ InCommit(r) /\ req[r].saved
        /\ Len(req[r].events) = 2
        /\ LogOf(r) = req[r].events

\* C6: no request on an existing story saves over a state another request
\* saved after it loaded, and no two requests that have saved were computed
\* for the same turn.
C6_OneRequestPerStory ==
    /\ \A r \in Requests : req[r].existed => ~req[r].stale
    /\ \A r1, r2 \in Requests :
          (r1 # r2 /\ InCommit(r1) /\ req[r1].saved /\ InCommit(r2) /\ req[r2].saved)
              => req[r1].turn # req[r2].turn

\* C7: the log, in insertion order, has non-decreasing (turn, time.order).
C7_LogIsMonotonic ==
    \A i, j \in 1..Len(log) : i < j => KeyLeq(log[i], log[j])

----------------------------------------------------------------------------
(* Properties of the applier and of the rules (SpecGate) *)

\* apply_state_patch called for each event in order, each on the result of
\* the one before
RECURSIVE FoldApply(_, _)
FoldApply(state, events) ==
    IF events = <<>> THEN Ok(state)
    ELSE LET r == apply_state_patch(state, events[1].state_patch, events[1].event_id,
                                    events[1].turn)
         IN IF r.ok THEN FoldApply(r.st, Tail(events)) ELSE Raised(state)

WithoutTurn(state) == [state EXCEPT !.meta.turn = 0]

MaxEventTurn(state, events) ==
    CHOOSE m \in {state.meta.turn} \cup {events[i].turn : i \in 1..Len(events)} :
        /\ m >= state.meta.turn
        /\ \A i \in 1..Len(events) : m >= events[i].turn

\* C11 as stated: for a non-empty batch apply_multiple_patches returns the
\* state that successive calls of apply_state_patch return, meta.turn and
\* meta.last_event_id included.
C11_ManyIsFold ==
    (Applied /\ gB # <<>>) => gapp = FoldApply(gs, gB)

\* C11 amended: apply_multiple_patches returns the state of the successive
\* calls in everything but meta.turn (and raises exactly when they raise);
\* its meta.turn is never below the one the successive calls leave.
C11_ManyIsFoldButTurn ==
    (Applied /\ gB # <<>>) =>
        /\ gapp.ok = FoldApply(gs, gB).ok
        /\ gapp.ok =>
            /\ WithoutTurn(gapp.st) = WithoutTurn(FoldApply(gs, gB).st)
            /\ gapp.st.meta.turn >= FoldApply(gs, gB).st.meta.turn

\* C11 witness: two events, the second changing what the first changed
C11_TwoDependentEvents ==
    /\ Applied /\ gapp.ok /\ Len(gB) = 2
    /\ FoldApply(gs, <<gB[1]>>).st.entities # gs.entities
    /\ gapp.st.entities # FoldApply(gs, <<gB[1]>>).st.entities
    /\ gapp.st.entities # FoldApply(gs, <<gB[2]>>).st.entities

\* C12: for a non-empty batch the result's meta.turn is the maximum of the
\* state's turn and the events' turns, and meta.last_event_id is the last
\* event's id.
C12_TurnIsMaxAndLastId ==
    (Applied /\ gapp.ok /\ gB # <<>>) =>
        /\ gapp.st.meta.turn = MaxEventTurn(gs, gB)
        /\ gapp.st.meta.last_event_id = gB[Len(gB)].event_id

\* C12 witness: a batch whose last event has a lower turn than its first
C12_TurnsOutOfOrder ==
    /\ Applied /\ gapp.ok /\ Len(gB) = 2
    /\ gB[1].turn > gB[2].turn
    /\ gapp.st.meta.turn = gB[1].turn

DeadIn(state, char_id) ==
    /\ char_id \in DOMAIN state.entities.characters
    /\ ~state.entities.characters[char_id].alive

\* The R3 dead-actor errors of a result that name character char_id
DeadActorErrors(result, state, char_id) ==
    SelectSeq(result.violations,
              LAMBDA v : /\ v.rule_id = "R3" /\ v.severity = "error"
                         /\ v.message.tpl = "R3_actor"
                         /\ v.entity_id = char_id
                         /\ v.message.args[1] = state.entities.characters[char_id].name)

\* C13: when an event that is neither DEATH nor REVIVAL lists a character dead
\* in current_state among its actors, validate_event_patch returns a result
\* with an R3 error whose message carries the character's name, and the verdict
\* is REWRITE or ASK_USER.
C13_DeadActorRejected ==
    GateDone =>
        \A i \in 1..Len(gB) : \A k \in 1..Len(gB[i].who.actors) :
            (gB[i].type \notin {"DEATH", "REVIVAL"} /\ DeadIn(gs, gB[i].who.actors[k]))
            => /\ gres.ok
               /\ DeadActorErrors(gres.st, gs, gB[i].who.actors[k]) # <<>>
               /\ gres.st.action \in {"REWRITE", "ASK_USER"}

\* C14: an event of type DEATH or REVIVAL that lists a character dead in
\* current_state among its actors yields no R3 dead-actor violation for that
\* actor.
C14_DeathRevivalActorExempt ==
    (GateDone /\ gres.ok) =>
        \A c \in DOMAIN gs.entities.characters :
            (/\ DeadIn(gs, c)
             /\ \A i \in 1..Len(gB) :
                   (\E k \in 1..Len(gB[i].who.actors) : gB[i].who.actors[k] = c)
                   => gB[i].type \in {"DEATH", "REVIVAL"})
            => DeadActorErrors(gres.st, gs, c) = <<>>

\* The state the applier leaves after the first n events of a batch
StateAfter(state, events, n) == FoldApply(state, SubSeq(events, 1, n)).st

Accepted == GateDone /\ gres.ok /\ gres.st.action \in {"PASS", "AUTO_FIX"}

\* C15: in a batch answered PASS or AUTO_FIX, an event whose patch, applied
\* after the events before it, turns a character's alive from true to false is
\* a DEATH, one that turns it from false to true is a REVIVAL, and one that
\* changes faction_id is a FACTION_CHANGE.
C15_LifeAndFactionChangesTyped ==
    (Accepted /\ FoldApply(gs, gB).ok) =>
        \A i \in 1..Len(gB) : \A c \in DOMAIN gs.entities.characters :
            LET before == StateAfter(gs, gB, i - 1).entities.characters[c]
                after == StateAfter(gs, gB, i).entities.characters[c]
            IN /\ (before.alive /\ ~after.alive) => gB[i].type = "DEATH"
               /\ (~before.alive /\ after.alive) => gB[i].type = "REVIVAL"
               /\ (before.faction_id # after.faction_id) => gB[i].type = "FACTION_CHANGE"

\* C16: in a batch answered PASS or AUTO_FIX, an event whose patch, applied
\* after the events before it, changes a character's location_id is a TRAVEL.
C16_LocationChangesAreTravel ==
    (Accepted /\ FoldApply(gs, gB).ok) =>
        \A i \in 1..Len(gB) : \A c \in DOMAIN gs.entities.characters :
            StateAfter(gs, gB, i - 1).entities.characters[c].location_id
                # StateAfter(gs, gB, i).entities.characters[c].location_id
            => gB[i].type = "TRAVEL"

\* The owner_id values a batch's item updates with entity_id item_id assign
AssignedOwners(events, item_id) ==
    UNION {{events[i].state_patch.entity_updates[k].updates.owner_id :
               k \in {n \in 1..Len(events[i].state_patch.entity_updates) :
                   /\ events[i].state_patch.entity_updates[n].entity_type = "item"
                   /\ events[i].state_patch.entity_updates[n].entity_id = item_id
                   /\ "owner_id" \in DOMAIN events[i].state_patch.entity_updates[n].updates
                   /\ Truthy(events[i].state_patch.entity_updates[n].updates.owner_id)}} :
           i \in 1..Len(events)}

ItemIds == {"seal_001", "sword_001", "bow_001"}

R1Errors(result, item_id) ==
    SelectSeq(result.violations,
              LAMBDA v : /\ v.rule_id = "R1" /\ v.severity = "error"
                         /\ ~v.fixable /\ v.entity_id = item_id)

\* C17: when the rules run, R1 reports an error (not fixable, entity_id the
\* item) for item i exactly when i is in current_state's unique_item_ids and
\* the batch's item updates targeting i assign at least two distinct owners;
\* every R1 violation is such an error.
C17_R1ExactlyOnTwoOwners ==
    (GateDone /\ gres.ok) =>
        /\ \A i \in ItemIds :
              (R1Errors(gres.st, i) # <<>>)
              <=> (/\ \E k \in 1..Len(gs.constraints.unique_item_ids) :
                         gs.constraints.unique_item_ids[k] = i
                   /\ Cardinality(AssignedOwners(gB, i)) >= 2)
        /\ \A n \in 1..Len(gres.st.violations) :
              gres.st.violations[n].rule_id = "R1"
              => gres.st.violations[n].entity_id \in ItemIds
                 /\ R1Errors(gres.st, gres.st.violations[n].entity_id) # <<>>

\* C17 witness: a batch giving the unique seal to two owners is reported
C17_TwoOwnersReported ==
    /\ GateDone /\ gres.ok /\ R1Errors(gres.st, "seal_001") # <<>>
    /\ Cardinality(AssignedOwners(gB, "seal_001")) = 2

\* The character updates of an event that assign a location_id
LocationUpdates(event, char_id) ==
    {k \in 1..Len(event.state_patch.entity_updates) :
        /\ event.state_patch.entity_updates[k].entity_type = "character"
        /\ event.state_patch.entity_updates[k].entity_id = char_id
        /\ "location_id" \in DOMAIN event.state_patch.entity_updates[k].updates}

GroupOf(events, time_order) == {i \in 1..Len(events) : events[i].time.order = time_order}

\* The locations a group of events asserts for a character: every location
\* explicitly assigned, and, when nothing is assigned in the group, the place
\* of every non-TRAVEL event the character acts in
AssertedLocations(events, time_order, char_id) ==
    LET explicit == UNION {{events[i].state_patch.entity_updates[k].updates.location_id :
                                k \in LocationUpdates(events[i], char_id)} :
                           i \in GroupOf(events, time_order)}
        acted == {events[i].where.location_id :
                     i \in {j \in GroupOf(events, time_order) :
                               /\ events[j].type # "TRAVEL"
                               /\ \E a \in 1..Len(events[j].who.actors) :
                                      events[j].who.actors[a] = char_id}}
    IN IF explicit # {} THEN explicit ELSE acted

CharIdsOf(events) ==
    UNION {Range(events[i].who.actors) : i \in 1..Len(events)}
    \cup UNION {{events[i].state_patch.entity_updates[k].entity_id :
                     k \in 1..Len(events[i].state_patch.entity_updates)} :
                 i \in 1..Len(events)}

\* The (character, time.order) pairs R6 reports
R6Reported(violations) ==
    {<<violations[n].entity_id, violations[n].message.args[3]>> :
        n \in {m \in 1..Len(violations) :
                  violations[m].rule_id = "R6" /\ violations[m].severity = "error"}}

ReverseSeq(s) == [i \in 1..Len(s) |-> s[Len(s) + 1 - i]]

\* C18: for each group of events sharing a time.order, R6 reports character c
\* exactly when the locations the group asserts for c (explicit location_id
\* updates, else the places of the non-TRAVEL events c acts in) are more than
\* one; the reports do not depend on the order of the events.
C18_R6ExactlyOnTwoLocations ==
    (GateDone /\ gres.ok) =>
        /\ \A i \in 1..Len(gB) : \A c \in CharIdsOf(gB) :
              (<<c, ToString(gB[i].time.order)>> \in R6Reported(gres.st.violations))
              <=> Cardinality(AssertedLocations(gB, gB[i].time.order, c)) > 1
        /\ R6Reported(check_r6_single_location_per_character(gs, gtemp.st, ReverseSeq(gB)))
               = R6Reported(gres.st.violations)

R7Errors(result) ==
    SelectSeq(result.violations, LAMBDA v : v.rule_id = "R7" /\ v.severity = "error")

\* (i) an event earlier than the state's time anchor
R7BeforeAnchor(state, events) ==
    \E i \in 1..Len(events) : events[i].time.order < state.time.anchor.order

\* (ii) two events of one turn, the earlier in the batch with the greater order
R7SameTurnInversion(events) ==
    \E i, j \in 1..Len(events) :
        /\ i < j /\ events[i].turn = events[j].turn
        /\ events[i].time.order > events[j].time.order

\* (iii) the projected anchor is earlier than the state's
R7ProjectedBack(state, temp) == temp.time.anchor.order < state.time.anchor.order

\* (iv) an event of a later turn with a smaller order than one of an earlier turn
R7CrossTurnInversion(events) ==
    \E i, j \in 1..Len(events) :
        /\ events[i].turn < events[j].turn
        /\ events[i].time.order > events[j].time.order

\* C19 as stated: R7 reports at least one error exactly when (i), (ii) or
\* (iii) holds; a batch with none of them, events of different turns included,
\* gets no R7 violation.
C19_R7ExactlyThreeCases ==
    (GateDone /\ gres.ok) =>
        ((R7Errors(gres.st) # <<>>)
         <=> (\/ R7BeforeAnchor(gs, gB) \/ R7SameTurnInversion(gB)
              \/ R7ProjectedBack(gs, gtemp.st)))

\* C19 amended: R7 reports at least one error exactly when (i), (ii), (iii)
\* or (iv) holds, where (iv) is an event of a later turn having a smaller
\* time.order than an event of an earlier turn, wherever they stand in the
\* batch; every R7 violation is an error.
C19_R7ExactlyFourCases ==
    (GateDone /\ gres.ok) =>
        /\ (R7Errors(gres.st) # <<>>)
           <=> (\/ R7BeforeAnchor(gs, gB) \/ R7SameTurnInversion(gB)
                \/ R7ProjectedBack(gs, gtemp.st) \/ R7CrossTurnInversion(gB))
        /\ \A n \in 1..Len(gres.st.violations) :
              gres.st.violations[n].rule_id = "R7" => gres.st.violations[n].severity = "error"

\* C19 witness: R7 reports a batch whose later turn goes back in time, stated
\* in either order, while none of (i), (ii), (iii) holds
C19_CrossTurnReported ==
    /\ GateDone /\ gres.ok /\ R7Errors(gres.st) # <<>>
    /\ Len(gB) = 2 /\ gB[1].turn > gB[2].turn /\ gB[1].time.order < gB[2].time.order
    /\ ~R7BeforeAnchor(gs, gB) /\ ~R7SameTurnInversion(gB) /\ ~R7ProjectedBack(gs, gtemp.st)

\* A constraint of known shape holds for its target entity in a state
ConstraintHolds(c, state) ==
    LET chars == state.entities.characters
        items == state.entities.items
    IN /\ (c.type = "entity_state" /\ "alive" \in DOMAIN c.value
           /\ c.entity_id \in DOMAIN chars)
          => chars[c.entity_id].alive = c.value.alive
       /\ (c.type = "relationship" /\ "faction_id" \in DOMAIN c.value
           /\ c.entity_id \in DOMAIN chars)
          => chars[c.entity_id].faction_id = c.value.faction_id
       /\ (c.type = "unique_item" /\ "owner_id" \in DOMAIN c.value
           /\ c.entity_id \in DOMAIN items)
          => items[c.entity_id].owner_id = c.value.owner_id

\* The batch was accepted and applied, fixes included
Committed ==
    /\ Accepted
    /\ \/ gres.st.action = "PASS" /\ Applied /\ gapp.ok
       \/ gpc = "fixed" /\ gfix.ok

CommittedState == IF gpc = "fixed" THEN gfix.st ELSE gapp.st

\* C20: when the verdict is PASS or AUTO_FIX, every constraint of known shape
\* in current_state's constraints holds for its target entity in the state the
\* applier produces from the batch and the fixes.
C20_ConstraintsHoldAfterCommit ==
    Committed =>
        \A k \in 1..Len(gs.constraints.constraints) :
            ConstraintHolds(gs.constraints.constraints[k], CommittedState)

----------------------------------------------------------------------------
(* Fixes, determinism, extraction, the event log and frames *)

\* The position of an item's owner in a state: the owning character's
\* location_id, the owner_id itself when it is a location; no position otherwise
OwnerPositions(state, item_id) ==
    LET owner == state.entities.items[item_id].owner_id
    IN IF owner \in DOMAIN state.entities.characters
       THEN {state.entities.characters[owner].location_id}
       ELSE IF owner \in DOMAIN state.entities.locations THEN {owner}
       ELSE {}

Misplaced(state) ==
    {i \in DOMAIN state.entities.items :
        /\ OwnerPositions(state, i) # {}
        /\ state.entities.items[i].location_id \notin OwnerPositions(state, i)}

OnlyR2Warnings(result) ==
    /\ result.violations # <<>>
    /\ \A n \in 1..Len(result.violations) :
          result.violations[n].rule_id = "R2" /\ result.violations[n].severity = "warning"

\* C21: when the only violations are R2 warnings the verdict is AUTO_FIX, and
\* fixes holds, for exactly the items whose projected location differs from
\* their owner's projected position, one item update setting location_id to
\* that position.
C21_FixesRelocateMisplacedItems ==
    (GateDone /\ gres.ok /\ OnlyR2Warnings(gres.st)) =>
        /\ gres.st.action = "AUTO_FIX"
        /\ IsSome(gres.st.fixes)
        /\ LET eus == Get(gres.st.fixes).entity_updates
           IN /\ {eus[k].key : k \in 1..Len(eus)} = Misplaced(gtemp.st)
              /\ Len(eus) = Cardinality(Misplaced(gtemp.st))
              /\ \A k \in 1..Len(eus) :
                    /\ eus[k].entity_type = "item" /\ eus[k].entity_id = eus[k].key
                    /\ DOMAIN eus[k].updates = {"location_id"}
                    /\ eus[k].updates.location_id \in OwnerPositions(gtemp.st, eus[k].key)

\* C21 witness: a fix that moves an item to the location that owns it, and
\* one that moves an item to its owning character
C21_FixToLocationAndCharacter ==
    /\ GateDone /\ gres.ok /\ OnlyR2Warnings(gres.st) /\ gres.st.action = "AUTO_FIX"
    /\ \E k \in 1..Len(Get(gres.st.fixes).entity_updates) :
          gtemp.st.entities.items[Get(gres.st.fixes).entity_updates[k].key].owner_id
              \in DOMAIN gtemp.st.entities.locations
    /\ \E k \in 1..Len(Get(gres.st.fixes).entity_updates) :
          gtemp.st.entities.items[Get(gres.st.fixes).entity_updates[k].key].owner_id
              \in DOMAIN gtemp.st.entities.characters

\* C22: validate_event_patch is deterministic: two calls with equal
\* (current_state, pending_events) return the same violation list, with the
\* same rule ids, entity ids, severities and messages in the same order.
C22_GateIsDeterministic ==
    (GateDone /\ gres.ok) => gtext.a = gtext.b

Extracted == xpc \in {"done", "applied"}

IsDefaultEvent(e) == e = create_default_event(xs, ExtractTurn, EventId(ExtractTurn, 0))

AllCallsFailed ==
    /\ xcalls # <<>>
    /\ \A n \in 1..Len(xcalls) : xcalls[n].outcome # "returned"

\* C23: in every ExtractionResult extract_events returns, requires_user_input
\* is true exactly when open_questions is non-empty, events is non-empty when
\* open_questions is empty, and the default event appears only as the sole
\* element of events.
C23_ResultIsWellFormed ==
    Extracted =>
        /\ xres.st.requires_user_input <=> (xres.st.open_questions # <<>>)
        /\ (xres.st.open_questions = <<>>) => (xres.st.events # <<>>)
        /\ \A n \in 1..Len(xres.st.events) :
              IsDefaultEvent(xres.st.events[n]) => Len(xres.st.events) = 1

\* C23 witness: the LLM returned only an event that was rejected, and the
\* result holds the default event alone
C23_DefaultAfterRejectedEvent ==
    /\ Extracted /\ ~AllCallsFailed
    /\ xdata.events # <<>>
    /\ Len(xres.st.events) = 1 /\ IsDefaultEvent(xres.st.events[1])

\* C24: when every LLM call fails, extract_events does not raise and returns
\* exactly one default event of type OTHER, requires_user_input false and no
\* open questions.
C24_AllCallsFailedGivesDefault ==
    (AllCallsFailed /\ xpc \in {"done", "applied", "raised"}) =>
        /\ xpc # "raised"
        /\ Len(xres.st.events) = 1 /\ IsDefaultEvent(xres.st.events[1])
        /\ xres.st.events[1].type = "OTHER"
        /\ ~xres.st.requires_user_input /\ xres.st.open_questions = <<>>

\* C24 witness: both modes failed twice and the default event was returned
C24_BothModesFailed ==
    /\ AllCallsFailed /\ Extracted
    /\ \E n \in 1..Len(xcalls) : xcalls[n].mode = "tool" /\ xcalls[n].attempt = 1
    /\ \E n \in 1..Len(xcalls) : xcalls[n].mode = "json" /\ xcalls[n].attempt = 1

ExtractionEnded == xpc \in {"done", "applied", "raised"}
CallsOf(mode) == {n \in 1..Len(xcalls) : xcalls[n].mode = mode}
AttemptsOf(mode) == {xcalls[n].attempt : n \in CallsOf(mode)}

\* Tool mode comes first and JSON mode only after both tool attempts failed
ToolModeFirst ==
    \A n \in CallsOf("json") :
        /\ AttemptsOf("tool") = {0, 1}
        /\ \A k \in 1..(n - 1) : xcalls[k].outcome # "returned"
        /\ \A k \in CallsOf("tool") : k < n

\* A mode makes the original attempt, then at most one retry, which carries
\* the reminder; an attempt makes at most two API calls
AtMostTwoAttempts ==
    /\ \A n \in 1..Len(xcalls) :
          /\ xcalls[n].attempt \in 0..1
          /\ xcalls[n].reminder <=> xcalls[n].attempt = 1
          /\ \A k \in 1..n : xcalls[k].mode = xcalls[n].mode
                                => xcalls[k].attempt <= xcalls[n].attempt
    /\ \A mode \in {"tool", "json"} :
          /\ 1 \in AttemptsOf(mode) => 0 \in AttemptsOf(mode)
          /\ \A a \in 0..1 :
                Cardinality({n \in CallsOf(mode) : xcalls[n].attempt = a}) <= 2

\* The first attempt that returns parsed data is the last LLM call
SuccessEndsCalls ==
    \A n \in 1..Len(xcalls) : xcalls[n].outcome = "returned" => n = Len(xcalls)

\* C25: extract_events calls tool mode first and JSON mode only after tool
\* mode failed; each mode makes at most two attempts, the second with the
\* reminder appended; the first successful attempt ends the LLM calls; and
\* the extraction ends after at most eight LLM calls.
C25_ToolThenJsonBoundedCalls ==
    /\ [](ToolModeFirst /\ AtMostTwoAttempts /\ SuccessEndsCalls
           /\ Len(xcalls) <= 4 * (max_retries + 1))
    /\ <>ExtractionEnded

C25_JsonRetrySucceeds ==
    /\ Extracted
    /\ Len(xcalls) >= 4
    /\ xcalls[Len(xcalls)] = [mode |-> "json", api |-> "json_object", attempt |-> 1,
                              reminder |-> TRUE, outcome |-> "returned"]
    /\ Len(xres.st.events) = 1

DefaultEventApplied ==
    /\ xpc = "applied"
    /\ Len(xres.st.events) = 1
    /\ IsDefaultEvent(xres.st.events[1])

\* C27: applying the extractor's default event to the state it was built
\* from leaves entities, player, time, quest and constraints as they were.
C27_DefaultEventChangesOnlyMeta ==
    DefaultEventApplied =>
        /\ xapp.ok
        /\ xapp.st.entities = xs.entities
        /\ xapp.st.player = xs.player
        /\ xapp.st.time = xs.time
        /\ xapp.st.quest = xs.quest
        /\ xapp.st.constraints = xs.constraints

AppendErrors == {"ValueError", "IntegrityError", "OperationalError"}

\* A call of append_event by r returns or raises in this step
AppendEnds(r) == req[r].pc \in {"select", "insert"} /\ req'[r].pc = "idle"

AppendEndsRight(r) ==
    AppendEnds(r) =>
        /\ req[r].event.event_id \in StoredIds(log)
              => req'[r].last \in AppendErrors
        /\ req'[r].last \in AppendErrors => log' = log
        /\ req'[r].last = "ok"
              => log' = Append(log, EventRow(req[r].story_id, req[r].event))

\* C28: append_event raises when the event_id is already stored, whatever the
\* story, and then leaves the log as it was; the log never holds two events
\* of one event_id, also when appends of one id overlap.
C28_EventIdsStayUnique ==
    /\ [](\A n, k \in 1..Len(log) : log[n].event_id = log[k].event_id => n = k)
    /\ [][\A r \in Requests : AppendEndsRight(r)]_vars

C28_RacingAppendsOneWins ==
    /\ req["r1"].last = "ok" /\ req["r2"].last = "IntegrityError"
    /\ req["r1"].calls = 1 /\ req["r2"].calls = 1
    /\ req["r1"].event.event_id = req["r2"].event.event_id
    /\ req["r1"].story_id # req["r2"].story_id
    /\ Len(log) = 1

\* The LLM's answer holds an event that ExtractedEvent or Event rejects
HasRejectedEvent ==
    /\ xdata.kind = "dict"
    /\ \E n \in 1..Len(xdata.events) :
          ~EventValid(convert_to_event(xdata.events[n], ExtractTurn, n))

\* C26: when the LLM's answer holds an event that fails validation, the
\* result asks the user: open_questions is non-empty and requires_user_input
\* is true, so that the rest of the batch is not passed on.
C26_RejectedEventAsksUser ==
    (Extracted /\ HasRejectedEvent) =>
        /\ xres.st.open_questions # <<>>
        /\ xres.st.requires_user_input

IsPrefix(s, t) == Len(s) <= Len(t) /\ \A n \in 1..Len(s) : t[n] = s[n]

Occurrences(s, x) == Cardinality({n \in 1..Len(s) : s[n] = x})

\* The entity ids of the unique_item constraints a batch adds
AddedUniqueIds(events) ==
    UNION {{events[n].state_patch.constraint_additions[k].entity_id :
                k \in {m \in 1..Len(events[n].state_patch.constraint_additions) :
                          events[n].state_patch.constraint_additions[m].type = "unique_item"}} :
           n \in 1..Len(events)}

ConstraintsOnlyGrow(before, after, added) ==
    /\ IsPrefix(before.constraints, after.constraints)
    /\ IsPrefix(before.unique_item_ids, after.unique_item_ids)
    /\ IsPrefix(before.immutable_events, after.immutable_events)
    /\ \A id \in added :
          Occurrences(after.unique_item_ids, id)
             = IF Occurrences(before.unique_item_ids, id) > 0
               THEN Occurrences(before.unique_item_ids, id) ELSE 1

\* C30: the patch applier only adds constraints: the entries of constraints,
\* unique_item_ids and immutable_events of the state before are kept, in
\* their order, in the state after, and the entity_id of an added
\* unique_item constraint enters unique_item_ids at most once.
C30_ConstraintsOnlyAdded ==
    /\ (Applied /\ gapp.ok)
          => ConstraintsOnlyGrow(gs.constraints, gapp.st.constraints, AddedUniqueIds(gB))
    /\ (gpc = "fixed" /\ gfix.ok)
          => ConstraintsOnlyGrow(gapp.st.constraints, gfix.st.constraints, {})

C30_SameUniqueItemAddedTwice ==
    /\ Applied /\ gapp.ok
    /\ Len(gB) = 2
    /\ AddedUniqueIds(<<gB[1]>>) = {"sword_001"}
    /\ AddedUniqueIds(<<gB[2]>>) = {"sword_001"}
    /\ gs.constraints.unique_item_ids = <<"seal_001">>
    /\ gapp.st.constraints.unique_item_ids = <<"seal_001", "sword_001">>
    /\ Len(gapp.st.constraints.constraints) = Len(gs.constraints.constraints) + 2

\* C29: validate_event_patch, apply_multiple_patches (for a non-empty batch)
\* and apply_state_patch leave the state object they are handed with the
\* value it had before the call, and what they return is another object.
C29_InputStateNotModified ==
    /\ GateDone => gheap.objs[1] = gs
    /\ (gpc = "applied" /\ gB # <<>> /\ gapp.ok) => gheap.ref # gheap.input
    /\ (gpc = "fixed")
          => /\ gheap.objs[gheap.input] = gapp.st
             /\ gheap.ref # gheap.input

C29_ThreeCallsOnChangingState ==
    /\ gpc = "fixed" /\ gfix.ok
    /\ Len(gB) = 2
    /\ Len(gheap.objs) = 5
    /\ gheap.objs[2] # gs
    /\ gheap.objs[3] # gs
    /\ gheap.objs[4] = gapp.st /\ gapp.st # gheap.objs[3]
    /\ gheap.objs[5] = gfix.st /\ gfix.st.entities # gapp.st.entities

----------------------------------------------------------------------------
(* Properties of the patch applier on sequences of patches (SpecPatch) *)

\* apply_state_patch has been called on gs with the patch of LastEvent
Patched == gB # <<>>
LastEvent == gB[Len(gB)]
LastPatch == LastEvent.state_patch

\* C32: in every state the applier returns from a valid state, every item has
\* owner_id or location_id, and every unique item has owner_id.
C32_ItemsStayValid ==
    (Patched /\ gapp.ok /\ StateValid(gs)) =>
        \A i \in DOMAIN gapp.st.entities.items : ItemValid(gapp.st.entities.items[i])

QuestIds(qs) == {qs[n].id : n \in 1..Len(qs)}

NoQuestTwice(q) ==
    /\ \A n, k \in 1..Len(q.active) : q.active[n].id = q.active[k].id => n = k
    /\ \A n, k \in 1..Len(q.completed) : q.completed[n].id = q.completed[k].id => n = k
    /\ QuestIds(q.active) \cap QuestIds(q.completed) = {}

\* C33: a quest of quest.active that a quest update completes or fails is in
\* quest.completed with the new status afterwards and no longer in active;
\* no quest id is listed twice and no quest is lost from both lists.
C33_FinishedQuestMovesToCompleted ==
    (Patched /\ gapp.ok /\ NoQuestTwice(gs.quest)) =>
        /\ NoQuestTwice(gapp.st.quest)
        /\ QuestIds(gs.quest.active) \cup QuestIds(gs.quest.completed)
              \subseteq QuestIds(gapp.st.quest.active) \cup QuestIds(gapp.st.quest.completed)
        /\ IsSome(LastPatch.quest_updates) =>
              \A n \in 1..Len(Get(LastPatch.quest_updates)) :
                 LET qu == Get(LastPatch.quest_updates)[n]
                 IN (qu.status \in {"completed", "failed"}
                        /\ qu.quest_id \in QuestIds(gs.quest.active))
                    => /\ qu.quest_id \notin QuestIds(gapp.st.quest.active)
                       /\ \E k \in 1..Len(gapp.st.quest.completed) :
                             /\ gapp.st.quest.completed[k].id = qu.quest_id
                             /\ gapp.st.quest.completed[k].status = qu.status

\* The map of a state that holds the entities of one type
EntitiesOf(state, type) ==
    CASE type = "character" -> state.entities.characters
      [] type = "item" -> state.entities.items
      [] type = "location" -> state.entities.locations
      [] OTHER -> state.entities.factions

\* C34: an update of an existing entity merges a metadata mapping into the
\* entity's metadata, keeping the keys it does not mention, and replaces
\* every other updated field.
C34_MetadataIsMerged ==
    (Patched /\ gapp.ok /\ Len(LastPatch.entity_updates) = 1) =>
        LET eu == LastPatch.entity_updates[1]
            before == EntitiesOf(gs, eu.entity_type)
            after == EntitiesOf(gapp.st, eu.entity_type)
        IN eu.key \in DOMAIN before =>
              \A f \in DOMAIN eu.updates :
                 after[eu.key][f] = IF f = "metadata"
                                    THEN DictUpdate(before[eu.key].metadata, eu.updates.metadata)
                                    ELSE eu.updates[f]

\* C35: apply_state_patch returns a state for every patch whose entity
\* updates name ids the state does not have: a character update and an
\* update without name change nothing, an update with name creates the
\* entity from the fields given.
C35_MissingEntitiesNeverRaise ==
    (Patched /\ Len(LastPatch.entity_updates) = 1) =>
        LET eu == LastPatch.entity_updates[1]
            before == EntitiesOf(gs, eu.entity_type)
            after == EntitiesOf(gapp.st, eu.entity_type)
        IN eu.key \notin DOMAIN before =>
              /\ gapp.ok
              /\ IF eu.entity_type = "character" \/ "name" \notin DOMAIN eu.updates
                 THEN after = before
                 ELSE /\ eu.key \in DOMAIN after
                      /\ \A f \in DOMAIN eu.updates : after[eu.key][f] = eu.updates[f]

\* The location ids a state refers to from its player, characters and items
ReferencedLocations(state) ==
    LET chars == state.entities.characters
        items == state.entities.items
    IN (IF Truthy(state.player.location_id) THEN {state.player.location_id} ELSE {})
       \cup {chars[c].location_id : c \in {x \in DOMAIN chars : Truthy(chars[x].location_id)}}
       \cup {items[i].location_id : i \in {x \in DOMAIN items : Truthy(items[x].location_id)}}
       \cup {items[i].owner_id : i \in {x \in DOMAIN items : /\ Truthy(items[x].owner_id)
                                                              /\ items[x].owner_id \notin DOMAIN chars}}

\* The ids the entity updates of the events name for one entity type
Targeted(events, type) ==
    UNION {{events[n].state_patch.entity_updates[k].key :
               k \in {m \in 1..Len(events[n].state_patch.entity_updates) :
                         events[n].state_patch.entity_updates[m].entity_type = type}} :
           n \in 1..Len(events)}

LocationsEnsured(before, after, events) ==
    /\ ReferencedLocations(after) \subseteq DOMAIN after.entities.locations
    /\ \A l \in DOMAIN after.entities.locations \ Targeted(events, "location") :
          IF l \in DOMAIN before.entities.locations
          THEN after.entities.locations[l] = before.entities.locations[l]
          ELSE after.entities.locations[l] = Location(l, l, None, EmptyDict)
    /\ DOMAIN after.entities.characters = DOMAIN before.entities.characters
    /\ DOMAIN after.entities.items \subseteq
          DOMAIN before.entities.items \cup Targeted(events, "item")
    /\ DOMAIN after.entities.factions \subseteq
          DOMAIN before.entities.factions \cup Targeted(events, "faction")

\* C36: after apply_state_patch and after apply_multiple_patches every
\* location id the player, a character or an item refers to (an item also by
\* an owner_id that is no character) is in entities.locations; a location
\* added for that has its id as name and no metadata, the locations that
\* were there are unchanged, and no character, item or faction is added
\* that no entity update names.
C36_ReferencedLocationsExist ==
    /\ (Patched /\ gapp.ok) => LocationsEnsured(gs, gapp.st, <<LastEvent>>)
    /\ (gpc = "many" /\ gfix.ok) => LocationsEnsured(gtemp, gfix.st, gB)

C36_TowerAndHarborCreated ==
    /\ gpc = "many" /\ gfix.ok /\ Len(gB) = 2
    /\ {"tower", "harbor"} \cap DOMAIN gtemp.entities.locations = {}
    /\ "sword_001" \in DOMAIN gfix.st.entities.items
    /\ gfix.st.entities.items["sword_001"].owner_id = "tower"
    /\ gfix.st.player.location_id = "harbor"
    /\ gfix.st.entities.locations["tower"] = Location("tower", "tower", None, EmptyDict)
    /\ gfix.st.entities.locations["harbor"] = Location("harbor", "harbor", None, EmptyDict)

NoDuplicates(seq) == \A n, k \in 1..Len(seq) : seq[n] = seq[k] => n = k

\* C37: starting from an inventory and a party without duplicates, a patch
\* never leaves a duplicate id in player.inventory or player.party.
C37_InventoryAndPartyWithoutDuplicates ==
    (Patched /\ gapp.ok /\ NoDuplicates(gs.player.inventory) /\ NoDuplicates(gs.player.party))
        => /\ NoDuplicates(gapp.st.player.inventory)
           /\ NoDuplicates(gapp.st.player.party)

----------------------------------------------------------------------------
(* Properties of committed requests *)

\* C31: the state a PASS or AUTO_FIX request saves is one that the next
\* get_state of the story returns: it passes the item validators and the
\* referential-integrity checks of CanonicalState.
C31_CommittedStateLoads ==
    Committed => get_state(save_state(CommittedState)).ok

\* C38: the save of a committed request leaves the persisted meta.turn
\* greater than the turn of the state the request loaded, and never smaller
\* than the turn persisted just before.
C38_TurnGrowsWithEveryCommit ==
    [][\A r \in Requests :
          (req[r].pc = "save" /\ req'[r].saved) =>
              /\ Get(store').meta.turn > req[r].state.meta.turn
              /\ IsSome(store) => Get(store').meta.turn >= Get(store).meta.turn]_vars

\* The gate's verdict on a request that loads the persisted state and whose
\* extraction yields only the default event
DefaultVerdict(state) ==
    validate_event_patch(state, <<create_default_event(state, state.meta.turn + 1,
                                                       EventId(MaxRequests + 1, 1))>>)

\* C39: from every persisted state that a committed request produces from the
\* auto-created initial state, a request whose extraction yields only the
\* default "conversation continues" event is accepted by the gate with PASS or
\* AUTO_FIX
C39_DefaultEventIsAccepted ==
    (gs = InitialState("s1") /\ Committed /\ get_state(save_state(CommittedState)).ok) =>
        /\ DefaultVerdict(get_state(save_state(CommittedState)).st).ok
        /\ DefaultVerdict(get_state(save_state(CommittedState)).st).st.action
               \in {"PASS", "AUTO_FIX"}

\* The part of a state that the patches of events determine
Content(state) ==
    [entities |-> state.entities, player |-> state.player, time |-> state.time,
     quest |-> state.quest, constraints |-> state.constraints]

\* A store operation of the request failed, or the request was cancelled
StoreFailed(r) ==
    req[r].pc = "failed" /\ (req[r].action = "" \/ req[r].toAppend # <<>>)

\* The requests are processed one at a time (the second slot serves only
\* requests that overlap the first) and no store operation fails
OneAtATime == req["r2"].pc = "idle" /\ ~StoreFailed("r1")

\* No request is between its first append_event and its save_state
Quiescent == \A r \in Requests : req[r].pc \notin {"append", "save"}

\* The persisted state is what the logged patches make of an initial state
Rebuilt ==
    IsSome(store) =>
        \E initial \in {World, InitialState("s1")} :
            /\ FoldApply(initial, log).ok
            /\ Content(Get(store)) = Content(FoldApply(initial, log).st)

====
